---------------------------- MODULE Spec2Model ----------------------------
(***************************************************************************)
(* A model of SwingPilot's decision-and-supervision engine                 *)
(* (src/backend/bot): the position supervisor with its one-shot stop-loss  *)
(* tightening, the cancellation of pending orders, the order-request       *)
(* builder with its limit-price validation, scan_once and main_loop.       *)
(*                                                                         *)
(* Prices are exact integers counted in units of 1e-12, the tolerance of   *)
(* the code's float comparisons (Tol); one step of round(x, 5), the        *)
(* precision of the terminal's prices, is PrecUnits of them.  Px(k) is k   *)
(* such steps.  Volumes are integers counted in units of 1e-8 lot, the     *)
(* precision round_lot rounds to; the division inside round_lot is done    *)
(* on the doubles of these decimals.  The terminal (MT5) is the            *)
(* environment: each of its calls answers with one of the outcomes the     *)
(* code tells apart.                                                       *)
(***************************************************************************)
EXTENDS Integers, Sequences, FiniteSets, TLC

VARIABLES
    config,               \* config_loader.config, fixed for the run
    tick,                 \* the quote mt5.symbol_info_tick returns: NoTick or [bid, ask]
    positions,            \* the terminal's open positions of the symbol (set of records)
    nextTicket,           \* the next position ticket the terminal hands out
    tightened_positions,  \* position_manager._tightened_positions
    monPc,                \* where monitor_position_by_symbol is
    monSnap,              \* the tuple positions_get returned to the current poll
    monIdx,               \* index in monSnap of the position the poll is at
    modReq,               \* the last call of _modify_position_sl: [ticket, sl, ok,
                          \* terminal, n], ok what it reported, terminal whether
                          \* it invoked a function of the terminal, n
                          \* alternating from call to call; NoReq before the first
    orders,               \* the terminal's pending orders of the symbol (a tuple)
    cancelRes,            \* the last run of cancel_pending_orders_for_symbol, or NoRes
    fnIn,                 \* the arguments of a function checked on its own
    fnOut,                \* its result, NoOut before the call
    pc,                   \* where main_loop (and scan_once under it) is
    candle,               \* open time of the latest entry-timeframe candle
    last_seen,            \* main_loop's last_seen; 0 is None
    last_time,            \* main_loop's last_time, of the latest fetch
    sc,                   \* the locals of the running scan_once, or NoScan
    scanRet,              \* what scan_once has just returned: [ok, res], or NoRet
    scanStarts,           \* how often scan_once was started for the candle that
                          \* opened at last_time
    sends,                \* how often send_order was called for that candle
    faults,               \* exceptions raised so far
    startup,              \* what the first-run check of main_loop did about open
                          \* positions, kept until scan_once is first invoked:
                          \* "unchecked", "flat", "monitor", "missed", then "scanned"
    shutdowns             \* how often shutdown_mt5 was called

monVars == <<tick, positions, nextTicket, tightened_positions, monPc, monSnap, monIdx,
             modReq>>
ordVars == <<orders, cancelRes>>
fnVars == <<fnIn, fnOut>>
mainVars == <<pc, candle, last_seen, last_time, sc, scanRet, scanStarts, sends, faults,
              startup, shutdowns>>

vars == <<config, monVars, ordVars, fnVars, mainVars>>

-----------------------------------------------------------------------------
(* Bounds of the model *)

\* position tickets the terminal hands out during one run
MaxTicket == 2

\* entry-timeframe candles that open during one run
MaxCandle == 3

\* exceptions raised during one run
MaxFaults == 1

(* round(x, 5) keeps multiples of 1e-5, which is PrecUnits units of 1e-12 *)
PrecUnits == 10000000
Px(k) == k * PrecUnits

(* the tolerance 1e-12 of the float comparisons *)
Tol == 1

NoTick == [none |-> TRUE]
NoReq == [none |-> TRUE]
NoRes == [none |-> TRUE]
NoOut == [none |-> TRUE]
NoScan == [none |-> TRUE]
NoRet == [none |-> TRUE]
Tickets == 1..MaxTicket
Candles == 1..MaxCandle

\* main_loop is not running
MainOff ==
    /\ pc = "off"
    /\ candle = 1
    /\ last_seen = 0
    /\ last_time = 0
    /\ sc = NoScan
    /\ scanRet = NoRet
    /\ scanStarts = 0
    /\ sends = 0
    /\ faults = 0
    /\ startup = "unchecked"
    /\ shutdowns = 0

Abs(x) == IF x < 0 THEN -x ELSE x

\* Python's round(value, 5): to the nearest multiple of PrecUnits, an exact tie to
\* the even multiple
round5(x) ==
    LET r == x % PrecUnits
        lo == x - r
        hi == lo + PrecUnits
    IN  IF 2 * r < PrecUnits THEN lo
        ELSE IF 2 * r > PrecUnits THEN hi
        ELSE IF (lo \div PrecUnits) % 2 = 0 THEN lo ELSE hi

\* The two settings of the pending wait are counted in half seconds, so that a
\* setting like 1.5 s can be written; int(..) cuts them to whole seconds.
SecondParts == 1 + 1

\* int(x) for a setting x that is not negative: the whole seconds in it
int_seconds(x) == x \div SecondParts

\* max_wait and poll_int of scan_once, in whole seconds
max_wait(cfg) == int_seconds(cfg.LIMIT_PENDING_MAX_WAIT_SECONDS)
poll_int(cfg) == int_seconds(cfg.LIMIT_PENDING_POLL_INTERVAL)

\* a faulty variant: one more round when the maximum has just been reached
wait_continues_at_maximum(cfg, waited) == waited <= max_wait(cfg)

\* `while waited < max_wait`: the wait goes into another round
wait_continues(cfg, waited) == waited < max_wait(cfg)

\* the defaults of config_loader.DEFAULT_CFG and of the getattr(config, ..) reads,
\* in model units
BaseConfig ==
    [ SYMBOL |-> "XAUUSDm",
      TIMEFRAME_ENTRY |-> [unit |-> "M", n |-> 15],
      DRY_RUN |-> FALSE,
      MAGIC |-> 7,
      SL_DISTANCE_USD |-> Px(8),
      TP_DISTANCE_USD |-> Px(12),
      TRAIL_TRIGGER_RR |-> 2,
      REDUCED_RISK_USD |-> Px(4),
      MIN_STOP_DISTANCE |-> Px(2),
      MIN_LOT |-> 2,
      LOT_STEP |-> 2,
      DEFAULT_VOLUME |-> 2,
      LIMIT_PENDING_MAX_WAIT_SECONDS |-> 2 * SecondParts,
      LIMIT_PENDING_POLL_INTERVAL |-> SecondParts,
      LARGE_CANDLE_THRESHOLD_USD |-> Px(6),
      LIMIT_PULLBACK_PCT |-> 3,
      EMAS_TREND |-> <<9, 20, 50>> ]

-----------------------------------------------------------------------------
(* position_manager.py: the position supervisor *)

\* outcomes of one terminal call: accepted (retcode 0), a result without retcode
\* (or no result at all), an error retcode, an exception
CallOutcomes == {"ok", "none", "err", "raise"}

\* _modify_position_sl(ticket, new_sl, ..): whether it reports success, given the
\* outcomes of order_modify and of the fallback order_send(TRADE_ACTION_SLTP)
modify_position_sl_ok(cfg, om, os) ==
    IF cfg.DRY_RUN THEN TRUE
    ELSE IF om \in {"ok", "none"} THEN TRUE
    ELSE os \in {"ok", "none"}

\* whether the terminal applied the new stop: a call it accepted
modify_position_sl_applied(cfg, om, os) ==
    IF cfg.DRY_RUN THEN FALSE
    ELSE IF om \in {"ok", "none"} THEN om = "ok"
    ELSE os = "ok"

\* a faulty variant: DRY_RUN is not looked at
modify_position_sl_calls_live(cfg, om) ==
    IF om \in {"ok", "none"} THEN {"order_modify"}
    ELSE {"order_modify", "order_send"}

\* the terminal functions _modify_position_sl invokes: none in DRY_RUN,
\* order_modify, and order_send(TRADE_ACTION_SLTP) when that did not succeed
modify_position_sl_calls(cfg, om) ==
    IF cfg.DRY_RUN THEN {}
    ELSE IF om \in {"ok", "none"} THEN {"order_modify"}
    ELSE {"order_modify", "order_send"}

\* a faulty variant: the ticket is marked whatever the call reported
tightened_after_always(tightened, ticket, ok) == tightened \cup {ticket}

\* _tightened_positions after a call of _modify_position_sl that reported ok
tightened_after(tightened, ticket, ok) ==
    IF ok THEN tightened \cup {ticket} ELSE tightened

\* the price the position could be closed at: bid for a long, ask for a short,
\* price_open when there is no tick
current_price(p, tk) ==
    IF tk = NoTick THEN p.price_open
    ELSE IF p.type = 0 THEN tk.bid ELSE tk.ask

initial_sl_distance(cfg, p) ==
    IF p.sl = 0 THEN Abs(cfg.SL_DISTANCE_USD)
    ELSE IF Abs(p.price_open - p.sl) <= 0 THEN Abs(cfg.SL_DISTANCE_USD)
    ELSE Abs(p.price_open - p.sl)

price_move(p, tk) ==
    IF p.type = 0 THEN current_price(p, tk) - p.price_open
    ELSE p.price_open - current_price(p, tk)

\* current_rr >= trigger_rr, with current_rr = price_move / initial_sl_distance
rr_reached(cfg, p, tk) ==
    /\ initial_sl_distance(cfg, p) > 0
    /\ price_move(p, tk) >= cfg.TRAIL_TRIGGER_RR * initial_sl_distance(cfg, p)

\* a faulty variant: the reduced risk is laid off on the other side of entry
desired_new_sl_beyond_entry(cfg, p) ==
    IF p.type = 0 THEN round5(p.price_open + cfg.REDUCED_RISK_USD)
    ELSE round5(p.price_open - cfg.REDUCED_RISK_USD)

\* desired_new_sl: reduced_risk from entry on the losing side, at broker precision
desired_new_sl(cfg, p) ==
    IF p.type = 0 THEN round5(p.price_open - cfg.REDUCED_RISK_USD)
    ELSE round5(p.price_open + cfg.REDUCED_RISK_USD)

\* a faulty variant: a stop equal to the present one passes as an improvement
improves_risk_not_strict(cfg, p) ==
    IF p.sl = 0 THEN TRUE
    ELSE IF p.type = 0 THEN desired_new_sl(cfg, p) >= p.sl
    ELSE desired_new_sl(cfg, p) <= p.sl

\* the first safety check: the new stop is closer to entry than the present one
improves_risk(cfg, p) ==
    IF p.sl = 0 THEN TRUE
    ELSE IF p.type = 0 THEN desired_new_sl(cfg, p) > p.sl
    ELSE desired_new_sl(cfg, p) < p.sl

\* the second safety check: the new stop is not on the wrong side of the market
right_side_of_market(cfg, p, tk) ==
    IF p.type = 0 THEN desired_new_sl(cfg, p) < current_price(p, tk)
    ELSE desired_new_sl(cfg, p) > current_price(p, tk)

\* a faulty variant: the tightened set is not consulted
should_attempt_again(cfg, p, tk, tightened) ==
    /\ rr_reached(cfg, p, tk)
    /\ improves_risk(cfg, p)
    /\ right_side_of_market(cfg, p, tk)

should_attempt(cfg, p, tk, tightened) ==
    /\ p.ticket \notin tightened
    /\ rr_reached(cfg, p, tk)
    /\ improves_risk(cfg, p)
    /\ right_side_of_market(cfg, p, tk)

\* positions_get(symbol) as a tuple, by ticket
RECURSIVE SeqOfSet(_)
SeqOfSet(S) ==
    IF S = {} THEN <<>>
    ELSE LET m == CHOOSE x \in S : \A y \in S : x.ticket <= y.ticket
         IN  <<m>> \o SeqOfSet(S \ {m})

\* the head of a poll: positions_get; no position (or an exception, caught by the
\* outer try) ends the monitor
MonitorPoll ==
    /\ UNCHANGED <<ordVars, fnVars, mainVars>>
    /\ monPc = "poll"
    /\ \E out \in {"ok", "raise"} :
         IF out = "raise" \/ positions = {}
         THEN /\ monPc' = "idle"
              /\ monSnap' = <<>>
              /\ monIdx' = 0
         ELSE /\ monPc' = "check"
              /\ monSnap' = SeqOfSet(positions)
              /\ monIdx' = 1
    /\ UNCHANGED <<config, tick, positions, nextTicket, tightened_positions, modReq>>

\* symbol_info_tick raises while the poll is at a position: the call is outside
\* the inner try, the outer except logs and the monitor returns
MonitorTickRaises ==
    /\ monPc' = "idle"
    /\ monSnap' = <<>>
    /\ monIdx' = 0
    /\ UNCHANGED <<modReq, tightened_positions, positions>>

\* one position of the poll: the quote, the tightening check and, when it passes,
\* the call of _modify_position_sl; after the last position the poll sleeps
MonitorCheck ==
    /\ UNCHANGED <<ordVars, fnVars, mainVars>>
    /\ monPc = "check"
    /\ MonitorTickRaises \/
       LET p == monSnap[monIdx]
           more == monIdx < Len(monSnap)
       IN  /\ monIdx' = IF more THEN monIdx + 1 ELSE 0
           /\ monPc' = IF more THEN "check" ELSE "poll"
           /\ monSnap' = IF more THEN monSnap ELSE <<>>
           /\ IF should_attempt(config, p, tick, tightened_positions)
              THEN \E om \in CallOutcomes, os \in CallOutcomes :
                        /\ modReq' = [ticket |-> p.ticket, sl |-> desired_new_sl(config, p),
                                      ok |-> modify_position_sl_ok(config, om, os),
                                      terminal |-> modify_position_sl_calls(config, om) # {},
                                      n |-> IF modReq = NoReq THEN 0 ELSE 1 - modReq.n]
                        /\ tightened_positions' =
                             tightened_after(tightened_positions, p.ticket,
                                             modify_position_sl_ok(config, om, os))
                        /\ positions' =
                             IF modify_position_sl_applied(config, om, os)
                             THEN {IF q.ticket = p.ticket
                                   THEN [q EXCEPT !.sl = desired_new_sl(config, p)]
                                   ELSE q : q \in positions}
                             ELSE positions
              ELSE UNCHANGED <<modReq, tightened_positions, positions>>
    /\ UNCHANGED <<config, tick, nextTicket>>

\* a caller (main_loop or scan_once) invokes monitor_position_by_symbol
MonitorInvoke ==
    /\ UNCHANGED <<ordVars, fnVars, mainVars>>
    /\ monPc = "idle"
    /\ monPc' = "poll"
    /\ UNCHANGED <<config, tick, positions, nextTicket, tightened_positions, monSnap,
                   monIdx, modReq>>

-----------------------------------------------------------------------------
(* The terminal as the supervisor sees it *)

\* quotes: none, or a bid with the ask one precision step above it
MonBids == {Px(20), Px(40), Px(48), Px(56)}
MonTicks == {NoTick} \cup {[bid |-> b, ask |-> b + Px(4)] : b \in MonBids}
MonOpenPrices == {Px(40)}
\* stops a position is opened with: none, the configured distance, a tight one
MonStops(type) == IF type = 0 THEN {0, Px(32), Px(36)} ELSE {0, Px(48), Px(44)}

TickMoves ==
    /\ UNCHANGED <<ordVars, fnVars, mainVars>>
    /\ tick' \in MonTicks \ {tick}
    /\ UNCHANGED <<config, positions, nextTicket, tightened_positions, monPc, monSnap,
                   monIdx, modReq>>

\* The book changes between polls: within a poll the code works on the tuple
\* positions_get returned, and a position gone in the meantime shows as a failed
\* modify call, which the outcomes of MonitorCheck cover.
PositionOpens ==
    /\ UNCHANGED <<ordVars, fnVars, mainVars>>
    /\ nextTicket <= MaxTicket
    /\ monPc # "check"
    /\ \E type \in {0, 1} : \E sl \in MonStops(type) : \E open \in MonOpenPrices :
         positions' = positions \cup
            {[ticket |-> nextTicket, type |-> type, price_open |-> open, sl |-> sl]}
    /\ nextTicket' = nextTicket + 1
    /\ UNCHANGED <<config, tick, tightened_positions, monPc, monSnap, monIdx, modReq>>

PositionCloses ==
    /\ UNCHANGED <<ordVars, fnVars, mainVars>>
    /\ pc \notin {"exited", "stopped"}
    /\ monPc # "check"
    /\ \E p \in positions : positions' = positions \ {p}
    /\ UNCHANGED <<config, tick, nextTicket, tightened_positions, monPc, monSnap,
                   monIdx, modReq>>

MonConfigs ==
    {[BaseConfig EXCEPT !.DRY_RUN = d, !.TRAIL_TRIGGER_RR = t, !.REDUCED_RISK_USD = r] :
        d \in BOOLEAN, t \in {2}, r \in {Px(4) + 3, Px(-8)}}

MonInit ==
    /\ config \in MonConfigs
    /\ tick \in MonTicks
    /\ positions = {}
    /\ nextTicket = 1
    /\ tightened_positions = {}
    /\ monPc = "idle"
    /\ monSnap = <<>>
    /\ monIdx = 0
    /\ modReq = NoReq
    /\ orders = <<>>
    /\ cancelRes = NoRes
    /\ fnIn = NoOut
    /\ fnOut = NoOut
    /\ MainOff

MonNext ==
    \/ MonitorInvoke
    \/ MonitorPoll
    \/ MonitorCheck
    \/ TickMoves
    \/ PositionOpens
    \/ PositionCloses

SpecMon == MonInit /\ [][MonNext]_vars

-----------------------------------------------------------------------------
(* Claims about the position supervisor, checked under SpecMon *)

\* this step calls _modify_position_sl for ticket t
ModifyIssued(t) == modReq' # modReq /\ modReq'.ticket = t

\* the position a poll is looking at qualifies for tightening but for the set
QualifiesAgain(p) ==
    /\ rr_reached(config, p, tick)
    /\ improves_risk(config, p)
    /\ right_side_of_market(config, p, tick)

\* C1: once a ticket is in the tightened set, no step of any poll, in this or a
\* later invocation of the monitor, calls _modify_position_sl for it again.
C1_TightenedNeverModifiedAgain ==
    [][\A t \in tightened_positions : ~ModifyIssued(t)]_vars

\* C1 witness: a poll looks at a tightened ticket whose reward:risk is at the
\* trigger again and whose new stop would pass both safety checks.
C1_Witness ==
    /\ monPc = "check"
    /\ monSnap[monIdx].ticket \in tightened_positions
    /\ modReq # NoReq
    /\ modReq.ticket = monSnap[monIdx].ticket
    /\ QualifiesAgain(monSnap[monIdx])

\* C10: a step that calls _modify_position_sl does so for the position the poll is
\* at, and at that poll the ticket is not in the tightened set, its reward:risk is
\* at or above the trigger, the requested stop is open_price minus (long) or plus
\* (short) reduced_risk at broker precision, it is strictly closer to entry than a
\* stop that is set, and strictly on the losing side of the current effective price.
C10_ModifyOnlyWhenAllChecksHold ==
    [][modReq' # modReq =>
        /\ monPc = "check"
        /\ LET p == monSnap[monIdx]
               cur == IF tick = NoTick THEN p.price_open
                      ELSE IF p.type = 0 THEN tick.bid ELSE tick.ask
           IN  /\ modReq'.ticket = p.ticket
               /\ p.ticket \notin tightened_positions
               /\ rr_reached(config, p, tick)
               /\ p.type = 0 =>
                    /\ modReq'.sl = round5(p.price_open - config.REDUCED_RISK_USD)
                    /\ p.sl # 0 => modReq'.sl > p.sl
                    /\ modReq'.sl < cur
               /\ p.type = 1 =>
                    /\ modReq'.sl = round5(p.price_open + config.REDUCED_RISK_USD)
                    /\ p.sl # 0 => modReq'.sl < p.sl
                    /\ modReq'.sl > cur]_vars

\* C10 witness: a modify request has been issued for a short whose stop was set.
C10_Witness ==
    /\ modReq # NoReq
    /\ \E p \in positions : p.ticket = modReq.ticket /\ p.type = 1 /\ p.sl # 0

\* the position the poll is at, whose stop this step asks to modify
Asked == monSnap[monIdx]

\* the stop requested in this step is strictly closer to the open price of the
\* position than the stop it has
CloserToOpen == Abs(Asked.price_open - modReq'.sl) < Abs(Asked.price_open - Asked.sl)

\* with a positive trigger and a reduced risk that is not negative, the stop
\* requested is at the open price or on its losing side, and not beyond the
\* current effective price
LosingSideOfOpen ==
    (config.TRAIL_TRIGGER_RR > 0 /\ config.REDUCED_RISK_USD >= 0) =>
        IF Asked.type = 0
        THEN modReq'.sl <= Asked.price_open /\ modReq'.sl <= current_price(Asked, tick)
        ELSE modReq'.sl >= Asked.price_open /\ modReq'.sl >= current_price(Asked, tick)

C11_TightenedOnlyAfterSuccess ==
    [][/\ tightened_positions \subseteq tightened_positions'
       /\ \A t \in tightened_positions' \ tightened_positions :
             ModifyIssued(t) /\ modReq'.ok
       /\ \A t \in Tickets :
             ModifyIssued(t) /\ ~modReq'.ok => t \notin tightened_positions'
       /\ modReq' = modReq => tightened_positions' = tightened_positions
       /\ (monPc = "check" /\ monPc' # "idle" /\ monIdx' # monIdx
             /\ monSnap[monIdx].ticket \notin tightened_positions
             /\ QualifiesAgain(monSnap[monIdx]))
           => ModifyIssued(monSnap[monIdx].ticket)]_vars

\* C11 witness: the last modify call failed, its ticket is not in the set, and a
\* later poll is at that position, which qualifies for tightening again.
C11_Witness ==
    /\ monPc = "check"
    /\ modReq # NoReq
    /\ ~modReq.ok
    /\ modReq.terminal
    /\ monSnap[monIdx].ticket = modReq.ticket
    /\ modReq.ticket \notin tightened_positions
    /\ QualifiesAgain(monSnap[monIdx])

\* the monitor returns to its caller in this step
MonitorReturns == monPc # "idle" /\ monPc' = "idle"

\* C12: monitor_position_by_symbol returns only at a poll whose positions query
\* finds no open position, and at the first such poll: a step that returns is the
\* head of a poll with no position open, and the head of a poll with no position
\* open returns; a terminal call that raises inside a poll does not end it while a
\* position is open.
C12_ReturnsExactlyWhenFlat ==
    [][/\ MonitorReturns => monPc = "poll" /\ positions = {}
       /\ (monPc = "poll" /\ monPc' # monPc /\ positions = {}) => monPc' = "idle"]_vars

-----------------------------------------------------------------------------
(* order_manager.py: cancellation of pending orders *)

\* bound: pending orders in the terminal's book
MaxOrders == 2

\* an order that carries no magic attribute
NoMagic == -1

\* magic = getattr(o, "magic", None) or getattr(o, "magic_number", None):
\* an absent magic and the magic 0 both read as None
order_magic(o) == IF o.magic = NoMagic \/ o.magic = 0 THEN NoMagic ELSE o.magic

\* a faulty variant: the test is inverted: the agent's own orders are the ones skipped
is_skipped_own(cfg, o) == order_magic(o) # NoMagic /\ order_magic(o) = cfg.MAGIC

\* the order is skipped as not belonging to this agent
is_skipped(cfg, o) == order_magic(o) # NoMagic /\ order_magic(o) # cfg.MAGIC

\* answers of order_send(TRADE_ACTION_REMOVE): retcode 0, a result without
\* retcode, no result (None), an error retcode, an exception
RemoveOutcomes == {"ok", "noretcode", "none", "err", "raise"}
\* answers of order_delete: a success value, a failure value, an exception
DeleteOutcomes == {"ok", "fail", "raise"}

NoCancel ==
    [cancelled |-> 0, errors |-> <<>>, primary |-> <<>>, secondary |-> <<>>,
     removed |-> {}, raised |-> FALSE]

\* a faulty variant: the fallback order_delete is also tried after an error retcode
cancel_one_eager(cfg, o, out) ==
    IF is_skipped(cfg, o) THEN NoCancel
    ELSE IF cfg.DRY_RUN THEN [NoCancel EXCEPT !.cancelled = 1]
    ELSE LET sent == [NoCancel EXCEPT !.primary = <<o.ticket>>]
             fell == [sent EXCEPT !.secondary = <<o.ticket>>]
         IN  CASE out.primary \in {"none", "err"} ->
                    IF out.secondary = "raise"
                    THEN [fell EXCEPT !.errors = <<[ticket |-> o.ticket, kind |-> "delete_failed"]>>]
                    ELSE [fell EXCEPT !.cancelled = 1,
                                      !.removed = IF out.secondary = "ok" THEN {o.ticket} ELSE {}]
               [] out.primary = "raise" ->
                    [sent EXCEPT !.errors = <<[ticket |-> 0, kind |-> "unknown"]>>]
               [] OTHER ->
                    [sent EXCEPT !.cancelled = 1,
                                 !.removed = IF out.primary = "ok" THEN {o.ticket} ELSE {}]

\* a faulty variant: an order whose delete raised is entered in the error list
\* and counted as well
cancel_one_twice(cfg, o, out) ==
    IF is_skipped(cfg, o) THEN NoCancel
    ELSE IF cfg.DRY_RUN THEN [NoCancel EXCEPT !.cancelled = 1]
    ELSE LET sent == [NoCancel EXCEPT !.primary = <<o.ticket>>]
             fell == [sent EXCEPT !.secondary = <<o.ticket>>]
         IN  CASE out.primary = "none" ->
                    IF out.secondary = "raise"
                    THEN [fell EXCEPT !.cancelled = 1,
                                      !.errors = <<[ticket |-> o.ticket, kind |-> "delete_failed"]>>]
                    ELSE [fell EXCEPT !.cancelled = 1,
                                      !.removed = IF out.secondary = "ok" THEN {o.ticket} ELSE {}]
               [] out.primary = "raise" ->
                    [sent EXCEPT !.errors = <<[ticket |-> 0, kind |-> "unknown"]>>]
               [] out.primary = "err" ->
                    [sent EXCEPT !.errors = <<[ticket |-> o.ticket, kind |-> "retcode"]>>]
               [] OTHER ->
                    [sent EXCEPT !.cancelled = 1,
                                 !.removed = IF out.primary = "ok" THEN {o.ticket} ELSE {}]

\* one pass of the loop over the orders: what it adds to the count of successes,
\* to the error list, to the removal requests sent (primary: order_send REMOVE,
\* secondary: order_delete) and to the orders the terminal removed, and whether an
\* exception leaves the function
cancel_one(cfg, o, out) ==
    IF is_skipped(cfg, o) THEN NoCancel
    ELSE IF cfg.DRY_RUN THEN [NoCancel EXCEPT !.cancelled = 1]
    ELSE LET sent == [NoCancel EXCEPT !.primary = <<o.ticket>>]
             fell == [sent EXCEPT !.secondary = <<o.ticket>>]
         IN  CASE out.primary = "none" ->
                    IF out.secondary = "raise"
                    THEN [fell EXCEPT !.errors = <<[ticket |-> o.ticket, kind |-> "delete_failed"]>>]
                    ELSE [fell EXCEPT !.cancelled = 1,
                                      !.removed = IF out.secondary = "ok" THEN {o.ticket} ELSE {}]
               [] out.primary = "raise" ->
                    [sent EXCEPT !.errors = <<[ticket |-> 0, kind |-> "unknown"]>>]
               [] out.primary = "err" ->
                    [sent EXCEPT !.errors = <<[ticket |-> o.ticket, kind |-> "retcode"]>>]
               [] OTHER ->
                    [sent EXCEPT !.cancelled = 1,
                                 !.removed = IF out.primary = "ok" THEN {o.ticket} ELSE {}]

RECURSIVE cancel_loop(_, _, _, _)
cancel_loop(cfg, list, outs, i) ==
    IF i > Len(list) THEN NoCancel
    ELSE LET a == cancel_one(cfg, list[i], outs[i])
             b == IF a.raised THEN NoCancel ELSE cancel_loop(cfg, list, outs, i + 1)
         IN  [cancelled |-> a.cancelled + b.cancelled,
              errors |-> a.errors \o b.errors,
              primary |-> a.primary \o b.primary,
              secondary |-> a.secondary \o b.secondary,
              removed |-> a.removed \cup b.removed,
              raised |-> a.raised \/ b.raised]

\* cancel_pending_orders_for_symbol(symbol) on the book `list`, orders_get
\* answering q (the tuple, nothing, or an exception) and the removal calls
\* answering outs
cancel_pending_orders_for_symbol(cfg, q, list, outs) ==
    IF q = "raise"
    THEN [NoCancel EXCEPT !.errors = <<[ticket |-> 0, kind |-> "orders_get_failed"]>>]
    ELSE IF q = "none" \/ Len(list) = 0 THEN NoCancel
    ELSE cancel_loop(cfg, list, outs, 1)

QueryOutcomes == {"ok", "none", "raise"}

\* the orders left in the book when the terminal removed `gone`
RECURSIVE Remaining(_, _)
Remaining(list, gone) ==
    IF list = <<>> THEN <<>>
    ELSE IF Head(list).ticket \in gone THEN Remaining(Tail(list), gone)
    ELSE <<Head(list)>> \o Remaining(Tail(list), gone)

\* answers to the removal calls for one order; order_delete is only ever called
\* after order_send answered None, its answer matters in no other case
CancelOutcomes ==
    {o \in [primary : RemoveOutcomes, secondary : DeleteOutcomes] :
        o.primary # "none" => o.secondary = "ok"}

\* one call of cancel_pending_orders_for_symbol; in DRY_RUN no removal call is
\* made, the answers nobody asks for are fixed to one value
CancelCall ==
    /\ cancelRes = NoRes
    /\ \E q \in QueryOutcomes :
       \E outs \in [1..Len(orders) -> CancelOutcomes] :
         LET r == cancel_pending_orders_for_symbol(config, q, orders, outs)
         IN  /\ config.DRY_RUN =>
                   \A i \in 1..Len(orders) : outs[i] = [primary |-> "ok", secondary |-> "ok"]
             /\ cancelRes' = [q |-> q, list |-> IF q = "ok" THEN orders ELSE <<>>,
                              outs |-> outs, res |-> r]
             /\ orders' = Remaining(orders, r.removed)
    /\ UNCHANGED <<config, monVars, fnVars, mainVars>>

\* magics of the orders in the book: the agent's, another one, 0, none
Magics == {BaseConfig.MAGIC, BaseConfig.MAGIC + 2, 0, NoMagic}

\* books of up to MaxOrders orders, tickets ascending from 1
Books ==
    UNION {[1..n -> {[ticket |-> t, magic |-> m] : t \in 1..MaxOrders, m \in Magics}] :
            n \in 0..MaxOrders}

CancelInit ==
    /\ config \in {[BaseConfig EXCEPT !.DRY_RUN = d] : d \in BOOLEAN}
    /\ orders \in {b \in Books : \A i \in 1..Len(b) : b[i].ticket = i}
    /\ cancelRes = NoRes
    /\ tick = NoTick
    /\ positions = {}
    /\ nextTicket = 1
    /\ tightened_positions = {}
    /\ monPc = "idle"
    /\ monSnap = <<>>
    /\ monIdx = 0
    /\ modReq = NoReq
    /\ fnIn = NoOut
    /\ fnOut = NoOut
    /\ MainOff

SpecCancel == CancelInit /\ [][CancelCall]_vars

\* occurrences of x in the tuple s
Count(s, x) == Cardinality({i \in 1..Len(s) : s[i] = x})

\* C6: for every pending order returned for the symbol whose magic is not
\* config.MAGIC (a magic of 0 or none included), no removal request is issued and
\* the order is not counted as cancelled.
C6_OnlyOwnOrdersCancelled ==
    cancelRes # NoRes =>
        LET foreign == {i \in 1..Len(cancelRes.list) :
                            cancelRes.list[i].magic # config.MAGIC}
        IN  /\ \A i \in foreign :
                 /\ Count(cancelRes.res.primary, cancelRes.list[i].ticket) = 0
                 /\ Count(cancelRes.res.secondary, cancelRes.list[i].ticket) = 0
            /\ cancelRes.res.cancelled <= Len(cancelRes.list) - Cardinality(foreign)

\* C7: whatever the book and whatever the terminal answers, the call returns a
\* count of successes and a list of errors and raises nothing; order_delete is
\* called for an order exactly when order_send(REMOVE) was called for it and
\* returned no result.
C7_CancelNeverRaises ==
    cancelRes # NoRes =>
        /\ ~cancelRes.res.raised
        /\ cancelRes.res.cancelled \in 0..Len(cancelRes.list)
        /\ Len(cancelRes.res.errors) \in 0..(Len(cancelRes.list) + 1)
        /\ cancelRes.q = "raise" => cancelRes.res.cancelled = 0 /\ Len(cancelRes.res.errors) = 1
        /\ \A i \in 1..Len(cancelRes.list) :
             LET t == cancelRes.list[i].ticket
             IN  Count(cancelRes.res.secondary, t) =
                    IF Count(cancelRes.res.primary, t) = 1 /\ cancelRes.outs[i].primary = "none"
                    THEN 1 ELSE 0

\* C7 witness: a call in which the primary removal of one order returned nothing
\* and the delete raised, and the primary removal of another raised.
C7_Witness ==
    /\ cancelRes # NoRes
    /\ Len(cancelRes.res.secondary) = 1
    /\ \E i \in 1..Len(cancelRes.list) :
         cancelRes.outs[i].primary = "raise" /\ ~is_skipped(config, cancelRes.list[i])
    /\ \E j \in 1..Len(cancelRes.res.errors) : cancelRes.res.errors[j].kind = "delete_failed"
    /\ ~config.DRY_RUN

\* the removal calls made for order i of the last call reported success: the
\* primary answered with retcode 0 (or a result without retcode), or it answered
\* nothing and the delete returned a success value
RemovalSucceeded(i) ==
    \/ cancelRes.outs[i].primary \in {"ok", "noretcode"}
    \/ cancelRes.outs[i].primary = "none" /\ cancelRes.outs[i].secondary = "ok"

\* the agent's orders of the last call, by their place in the book
OwnOrders == {i \in 1..Len(cancelRes.list) : ~is_skipped(config, cancelRes.list[i])}

\* the error list of the last call has an entry for ticket t
ErrorFor(t) ==
    \E j \in 1..Len(cancelRes.res.errors) : cancelRes.res.errors[j].ticket = t

\* C31: outside dry-run the count of successes is the number of the agent's
\* orders for which a removal call reported success, and an order whose primary
\* removal returned no result and whose delete returned a failure value is in the
\* error list.
C31_CountedOnlyOnSuccess ==
    (cancelRes # NoRes /\ ~config.DRY_RUN) =>
        /\ cancelRes.res.cancelled = Cardinality({i \in OwnOrders : RemovalSucceeded(i)})
        /\ \A i \in OwnOrders :
             (cancelRes.outs[i].primary = "none" /\ cancelRes.outs[i].secondary = "fail")
                => ErrorFor(cancelRes.list[i].ticket)

\* C31 where it holds: with no delete that returns a failure value the count is
\* the number of orders whose removal reported success.
C31_HoldsWithoutFailedDelete ==
    (/\ cancelRes # NoRes
     /\ ~config.DRY_RUN
     /\ \A i \in OwnOrders : cancelRes.outs[i].secondary # "fail") =>
        cancelRes.res.cancelled = Cardinality({i \in OwnOrders : RemovalSucceeded(i)})

\* C32: when orders_get answers with the book, the count of successes plus the
\* length of the error list is the number of orders not skipped for a foreign
\* magic, and each of these orders adds exactly one to exactly one of the two.
C32_EachOwnOrderCountedOnce ==
    (cancelRes # NoRes /\ cancelRes.q = "ok") =>
        /\ cancelRes.res.cancelled + Len(cancelRes.res.errors) = Cardinality(OwnOrders)
        /\ \A i \in 1..Len(cancelRes.list) :
             LET one == cancel_one(config, cancelRes.list[i], cancelRes.outs[i])
             IN  /\ one.cancelled + Len(one.errors) = IF i \in OwnOrders THEN 1 ELSE 0
                 /\ one.cancelled \in {0, 1}

\* C32 witness: a call on a book of two orders of the agent, one of them counted
\* and the other in the error list.
C32_Witness ==
    /\ cancelRes # NoRes
    /\ cancelRes.q = "ok"
    /\ ~config.DRY_RUN
    /\ Len(cancelRes.list) = 2
    /\ cancelRes.res.cancelled = 1
    /\ Len(cancelRes.res.errors) = 1

-----------------------------------------------------------------------------
(* order_manager.py: the order-request builder *)

NoRequest == [none |-> TRUE]
\* limit_price=None
NoPrice == -1

Max(a, b) == IF a >= b THEN a ELSE b

\* Volumes are counted in units of 1e-8 lot, the places round(v, 8) keeps; the
\* division of round_lot is done on the doubles float(..) gives.  A double is
\* [m, e] for m * 2^e with a 53-bit m, held as <<hi, lo>> = hi * 2^27 + lo.
LotUnits == 100000000
RECURSIVE Pow2(_)
Pow2(n) == IF n = 0 THEN 1 ELSE 2 * Pow2(n - 1)

Two21 == 1024 * 2048
Two25 == 4096 * 8192
Two26 == 8192 * 8192
Two27 == 8192 * 16384

\* 2 * p + bit, 16 * p + c, j * p (j < 16), p >= q, p - q and p + 1 on <<hi, lo>>
wide_twice(p, bit) ==
    LET lo2 == 2 * p[2] + bit IN <<2 * p[1] + lo2 \div Two27, lo2 % Two27>>
wide_shift4(p, c) ==
    LET lo16 == 16 * p[2] + c IN <<16 * p[1] + lo16 \div Two27, lo16 % Two27>>
wide_times(p, j) ==
    LET loj == j * p[2] IN <<j * p[1] + loj \div Two27, loj % Two27>>
wide_geq(p, q) == p[1] > q[1] \/ (p[1] = q[1] /\ p[2] >= q[2])
wide_sub(p, q) ==
    IF p[2] >= q[2] THEN <<p[1] - q[1], p[2] - q[2]>>
    ELSE <<p[1] - q[1] - 1, p[2] + Two27 - q[2]>>
wide_inc(p) == IF p[2] + 1 = Two27 THEN <<p[1] + 1, 0>> ELSE <<p[1], p[2] + 1>>

\* round to nearest, ties to even: m is the 53 bits kept, `above` and `tie` say
\* where the rest lies against half a unit of the last place
dbl_round(m, e, above, tie) ==
    LET m1 == IF above \/ (tie /\ m[2] % 2 = 1) THEN wide_inc(m) ELSE m
    IN  IF m1[1] = Two26 THEN [m |-> <<Two25, 0>>, e |-> e + 1] ELSE [m |-> m1, e |-> e]

\* binary digits of (acc + r / d) until 53 bits are in acc: four at a time while
\* acc is below 2^48, then one at a time
RECURSIVE dbl_digits(_, _, _, _)
dbl_digits(acc, r, d, e) ==
    IF acc[1] >= Two25 THEN dbl_round(acc, e, 2 * r > d, 2 * r = d)
    ELSE IF acc[1] < Two21
    THEN dbl_digits(wide_shift4(acc, (16 * r) \div d), (16 * r) % d, d, e - 4)
    ELSE LET bit == IF 2 * r >= d THEN 1 ELSE 0
         IN  dbl_digits(wide_twice(acc, bit), 2 * r - bit * d, d, e - 1)

\* float(x) for the decimal x = k / d, k > 0: the nearest double
dbl_of_decimal(k, d) == dbl_digits(<<0, k \div d>>, k % d, d, 0)

\* binary digits of (acc + r / mb), r < mb, until 53 bits are in acc: the 53
\* bits and what is left of r
RECURSIVE dbl_quot(_, _, _)
dbl_quot(acc, r, mb) ==
    IF acc[1] >= Two25 THEN <<acc, r>>
    ELSE IF acc[1] < Two21
    THEN LET r16 == wide_shift4(r, 0)
             c == Cardinality({j \in 1..15 : wide_geq(r16, wide_times(mb, j))})
         IN  dbl_quot(wide_shift4(acc, c), wide_sub(r16, wide_times(mb, c)), mb)
    ELSE LET r2 == wide_twice(r, 0)
         IN  IF wide_geq(r2, mb) THEN dbl_quot(wide_twice(acc, 1), wide_sub(r2, mb), mb)
             ELSE dbl_quot(wide_twice(acc, 0), r2, mb)

\* a / b on doubles, rounded to nearest: the quotient of the two 53-bit values
\* is in (1/2, 2) and starts with the digit 1 before or after the point
dbl_div(a, b) ==
    LET whole == wide_geq(a.m, b.m)
        q == IF whole THEN dbl_quot(<<0, 1>>, wide_sub(a.m, b.m), b.m)
             ELSE dbl_quot(<<0, 0>>, a.m, b.m)
        r2 == wide_twice(q[2], 0)
    IN  dbl_round(q[1], a.e - b.e - (IF whole THEN 52 ELSE 53),
                  wide_geq(r2, b.m) /\ r2 # b.m, r2 = b.m)

\* math.floor(a) of a double below 2^26
dbl_floor(a) ==
    LET s == 0 - a.e
    IN  IF s >= 53 THEN 0
        ELSE IF s >= 27 THEN a.m[1] \div Pow2(s - 27)
        ELSE a.m[1] * Pow2(27 - s) + a.m[2] \div Pow2(s)

\* a faulty variant: the volume is floored before it is clamped to MIN_LOT
round_lot_floor_first(min_l, step, volume) ==
    Max(dbl_floor(dbl_div(dbl_of_decimal(volume, LotUnits), dbl_of_decimal(step, LotUnits))) * step, min_l)

\* round_lot(volume) for MIN_LOT = min_l and LOT_STEP = step: clamp to MIN_LOT,
\* floor(v / step) on the doubles, times step; round(.., 8) of that product is
\* the double of the decimal multiple
round_lot_value(min_l, step, volume) ==
    dbl_floor(dbl_div(dbl_of_decimal(Max(volume, min_l), LotUnits), dbl_of_decimal(step, LotUnits))) * step

\* the lot sizes of the configurations and the volumes asked for: the small
\* ones of the order flow, and hundredths of a lot up to MaxHundredths with
\* 0.017 lot
MaxHundredths == 60
Hundredth == LotUnits \div 100
FlowLotSizes == {<<2, 2>>, <<2, 3>>}
LotSizes == {<<Hundredth, Hundredth>>, <<3 * Hundredth, 2 * Hundredth>>,
             <<10 * Hundredth, 10 * Hundredth>>}
LotVolumes == {a * Hundredth : a \in 1..MaxHundredths} \cup {1700000}
LotArgs ==
    {<<z[1], z[2], v>> : z \in FlowLotSizes, v \in {0, 2, 3}}
    \cup {<<z[1], z[2], v>> : z \in LotSizes, v \in LotVolumes}

\* round_lot on every argument of the model, computed once
round_lot_table == [a \in LotArgs |-> round_lot_value(a[1], a[2], a[3])]

round_lot(cfg, volume) == round_lot_table[<<cfg.MIN_LOT, cfg.LOT_STEP, volume>>]

\* a faulty variant: a limit exactly MIN_STOP_DISTANCE away is refused
validate_limit_price_open(cfg, direction, limit_price, tk) ==
    IF tk = NoTick THEN FALSE
    ELSE IF direction = "long"
         THEN limit_price < tk.ask - Tol /\ tk.ask - limit_price > cfg.MIN_STOP_DISTANCE
         ELSE limit_price > tk.bid + Tol /\ limit_price - tk.bid > cfg.MIN_STOP_DISTANCE

\* _validate_limit_price(symbol, direction, limit_price): ok, on the quote tk
validate_limit_price(cfg, direction, limit_price, tk) ==
    IF tk = NoTick THEN FALSE
    ELSE IF direction = "long"
         THEN /\ limit_price < tk.ask - Tol
              /\ ~((tk.ask - limit_price) < cfg.MIN_STOP_DISTANCE)
         ELSE /\ limit_price > tk.bid + Tol
              /\ ~((limit_price - tk.bid) < cfg.MIN_STOP_DISTANCE)

\* a faulty variant: the limit price goes into the request without validation
build_order_request_unvalidated(cfg, direction, volume, sl_price, tp_price, order_type, limit_price, tk, tkv) ==
    IF tk = NoTick THEN NoRequest
    ELSE IF round_lot(cfg, volume) < cfg.MIN_LOT THEN NoRequest
    ELSE [action |-> IF order_type = "market" THEN "DEAL" ELSE "PENDING",
          type |-> IF order_type = "market"
                   THEN (IF direction = "long" THEN "BUY" ELSE "SELL")
                   ELSE (IF direction = "long" THEN "BUY_LIMIT" ELSE "SELL_LIMIT"),
          volume |-> round_lot(cfg, volume),
          price |-> IF order_type = "limit" THEN limit_price
                    ELSE IF direction = "long" THEN tk.ask ELSE tk.bid,
          sl |-> sl_price, tp |-> tp_price, magic |-> cfg.MAGIC]

\* build_order_request(..): the request, or NoRequest for None.  tk is the quote
\* the builder reads, tkv the quote _validate_limit_price reads after it.
build_order_request(cfg, direction, volume, sl_price, tp_price, order_type, limit_price, tk, tkv) ==
    IF tk = NoTick THEN NoRequest
    ELSE IF round_lot(cfg, volume) < cfg.MIN_LOT THEN NoRequest
    ELSE IF order_type = "market"
    THEN [action |-> "DEAL",
          type |-> IF direction = "long" THEN "BUY" ELSE "SELL",
          volume |-> round_lot(cfg, volume),
          price |-> IF direction = "long" THEN tk.ask ELSE tk.bid,
          sl |-> sl_price, tp |-> tp_price, magic |-> cfg.MAGIC]
    ELSE IF order_type = "limit"
    THEN IF limit_price = NoPrice THEN NoRequest
         ELSE IF ~validate_limit_price(cfg, direction, limit_price, tkv) THEN NoRequest
         ELSE [action |-> "PENDING",
               type |-> IF direction = "long" THEN "BUY_LIMIT" ELSE "SELL_LIMIT",
               volume |-> round_lot(cfg, volume),
               price |-> limit_price,
               sl |-> sl_price, tp |-> tp_price, magic |-> cfg.MAGIC]
    ELSE NoRequest

\* _validate_limit_price applied to the arguments fnIn
ValidateLimit ==
    /\ fnOut = NoOut
    /\ fnIn.fn = "validate_limit_price"
    /\ fnOut' = [ok |-> validate_limit_price(config, fnIn.direction, fnIn.limit_price,
                                               fnIn.tick)]
    /\ UNCHANGED <<config, monVars, ordVars, fnIn, mainVars>>

\* distances between the limit and the quote: around 0, around the tolerance,
\* around two precision steps
LimitDistances == {-1, 0, 1, 2, 3, Px(2) - 1, Px(2), Px(2) + 1}
LimitQuotes == {NoTick, [bid |-> Px(20), ask |-> Px(21)]}
LimitPrices == {Px(21) - d : d \in LimitDistances} \cup {Px(20) + d : d \in LimitDistances}
MinStops == {0, 1, 2, 3, Px(2)}

LimitInit ==
    /\ config \in {[BaseConfig EXCEPT !.MIN_STOP_DISTANCE = m] : m \in MinStops}
    /\ fnIn \in [fn : {"validate_limit_price"}, direction : {"long", "short"},
                 limit_price : LimitPrices, tick : LimitQuotes]
    /\ fnOut = NoOut
    /\ orders = <<>>
    /\ cancelRes = NoRes
    /\ tick = NoTick
    /\ positions = {}
    /\ nextTicket = 1
    /\ tightened_positions = {}
    /\ monPc = "idle"
    /\ monSnap = <<>>
    /\ monIdx = 0
    /\ modReq = NoReq
    /\ MainOff

SpecLimit == LimitInit /\ [][ValidateLimit]_vars

\* round_lot applied to the volume fnIn
RoundLot ==
    /\ fnOut = NoOut
    /\ fnIn.fn = "round_lot"
    /\ fnOut' = [v |-> round_lot(config, fnIn.volume)]
    /\ UNCHANGED <<config, monVars, ordVars, fnIn, mainVars>>

\* build_order_request applied to the arguments fnIn, on the quote fnIn.tick
BuildRequest ==
    /\ fnOut = NoOut
    /\ fnIn.fn = "build_order_request"
    /\ fnOut' = [req |-> build_order_request(config, fnIn.direction, fnIn.volume, Px(10), Px(30),
                                               fnIn.order_type, fnIn.limit_price, fnIn.tick,
                                               fnIn.tick)]
    /\ UNCHANGED <<config, monVars, ordVars, fnIn, mainVars>>

\* a market order, and a limit two price steps under the ask
LotInputs ==
    [fn : {"round_lot"}, volume : LotVolumes]
    \cup [fn : {"build_order_request"}, volume : LotVolumes, direction : {"long"},
          order_type : {"market"}, limit_price : {NoPrice}, tick : {[bid |-> Px(20), ask |-> Px(21)]}]
    \cup [fn : {"build_order_request"}, volume : LotVolumes, direction : {"long"},
          order_type : {"limit"}, limit_price : {Px(18)}, tick : {[bid |-> Px(20), ask |-> Px(21)]}]

LotInit ==
    /\ config \in {[BaseConfig EXCEPT !.MIN_LOT = z[1], !.LOT_STEP = z[2]] : z \in LotSizes}
    /\ fnIn \in LotInputs
    /\ fnOut = NoOut
    /\ orders = <<>>
    /\ cancelRes = NoRes
    /\ tick = NoTick
    /\ positions = {}
    /\ nextTicket = 1
    /\ tightened_positions = {}
    /\ monPc = "idle"
    /\ monSnap = <<>>
    /\ monIdx = 0
    /\ modReq = NoReq
    /\ MainOff

LotNext ==
    \/ RoundLot
    \/ BuildRequest

SpecLot == LotInit /\ [][LotNext]_vars

\* round_lot has answered
Rounded == fnOut # NoOut /\ fnIn.fn = "round_lot"

\* C25: round_lot floors and never rounds up: its value is the largest multiple
\* of LOT_STEP that does not exceed max(volume, MIN_LOT), and so is never above
\* that maximum; for volume 0.017 with MIN_LOT = LOT_STEP = 0.01 it is 0.01.
C25_LargestMultipleNotAbove ==
    Rounded =>
        LET v == Max(fnIn.volume, config.MIN_LOT)
        IN  /\ fnOut.v % config.LOT_STEP = 0
            /\ fnOut.v <= v
            /\ v < fnOut.v + config.LOT_STEP
            /\ (fnIn.volume = 1700000 /\ config.MIN_LOT = Hundredth /\ config.LOT_STEP = Hundredth)
                  => fnOut.v = Hundredth

\* the part of C25 that holds: a multiple of LOT_STEP, never above the maximum
\* and less than two steps under it
C25_NeverRoundsUp ==
    Rounded =>
        LET v == Max(fnIn.volume, config.MIN_LOT)
        IN  /\ fnOut.v % config.LOT_STEP = 0
            /\ fnOut.v <= v
            /\ v < fnOut.v + 2 * config.LOT_STEP

\* build_order_request has answered
Built == fnOut # NoOut /\ fnIn.fn = "build_order_request"

\* C26: a request that build_order_request returns has a volume of MIN_LOT or
\* more that is a whole multiple of LOT_STEP; when the normalised volume is
\* below MIN_LOT it returns no request.
C26_RequestVolumeValid ==
    Built =>
        /\ fnOut.req # NoRequest =>
              /\ fnOut.req.volume >= config.MIN_LOT
              /\ fnOut.req.volume % config.LOT_STEP = 0
              /\ fnOut.req.volume = round_lot(config, fnIn.volume)
        /\ round_lot(config, fnIn.volume) < config.MIN_LOT => fnOut.req = NoRequest

\* C26 witness: MIN_LOT 0.03 is not a multiple of LOT_STEP 0.02, the volume 0.03
\* is normalised to 0.02 and the builder has returned no request.
C26_Witness ==
    /\ Built
    /\ config.MIN_LOT = 3 * Hundredth /\ config.LOT_STEP = 2 * Hundredth
    /\ fnIn.volume = 3 * Hundredth
    /\ fnOut.req = NoRequest


\* the validator has answered for a quoted symbol
Validated == fnOut # NoOut /\ fnIn.tick # NoTick

LimitDistance ==
    IF fnIn.direction = "long" THEN fnIn.tick.ask - fnIn.limit_price
    ELSE fnIn.limit_price - fnIn.tick.bid

-----------------------------------------------------------------------------
(* strategy.py: entry detection *)

NoBars == <<>>
\* a quote that was not read
NoRead == [unread |-> TRUE]

Detection(direction, reason, type, price) ==
    [direction |-> direction, reason |-> reason, type |-> type, price |-> price]

candle_is_bull(c) == c.close > c.open

\* a faulty variant: a candle that closes where it opened counts as falling
candle_is_bear_or_flat(c) == c.close <= c.open

candle_is_bear(c) == c.close < c.open

\* a faulty variant: the pullback is taken from the open of the candle
bull_limit_price_from_open(cfg, last) ==
    last.open - (cfg.LIMIT_PULLBACK_PCT * (last.close - last.open)) \div 10

\* limit_price = last_close - pullback_pct * (last_close - last_open)
bull_limit_price(cfg, last) ==
    last.close - (cfg.LIMIT_PULLBACK_PCT * (last.close - last.open)) \div 10

\* a faulty variant: the pullback is laid off below the close of the falling candle
bear_limit_price_below_close(cfg, last) ==
    last.close - (cfg.LIMIT_PULLBACK_PCT * (last.open - last.close)) \div 10

\* limit_price = last_close + pullback_pct * (last_open - last_close)
bear_limit_price(cfg, last) ==
    last.close + (cfg.LIMIT_PULLBACK_PCT * (last.open - last.close)) \div 10

\* a faulty variant: the close only has to be above the previous low
valid_market_bull_low_only(prev, last) ==
    last.low <= prev.low + Tol /\ last.close >= prev.low - Tol

\* valid_market of the bullish branch
valid_market_bull(prev, last) ==
    last.low <= prev.low + Tol /\ last.close >= prev.close - Tol

\* a faulty variant: the high is compared with the previous low
valid_market_bear_low(prev, last) ==
    last.high >= prev.low - Tol /\ last.close <= prev.close + Tol

\* valid_market of the bearish branch
valid_market_bear(prev, last) ==
    last.high >= prev.high - Tol /\ last.close <= prev.close + Tol

\* get_last_two_closed(df, timeframe, safety_seconds) at the time `now` the clock
\* gives: df is a sequence of rows [time, open, high, low, close], times in
\* seconds; the answer is <<prev, last>>, or NoBars for (None, None)
get_last_two_closed(df, timeframe, now, safety_seconds) ==
    LET mins == IF timeframe.unit = "M" THEN timeframe.n ELSE timeframe.n * 60
        ends(r) == r.time + mins * 60
        forming_threshold == now - safety_seconds
        closed_df == SelectSeq(df, LAMBDA r : ends(r) <= forming_threshold)
        n == Len(df)
    IN  IF n < 3
        THEN IF Len(closed_df) >= 2
             THEN <<closed_df[Len(closed_df) - 1], closed_df[Len(closed_df)]>>
             ELSE NoBars
        ELSE IF ends(df[n]) > forming_threshold
             THEN <<df[n - 2], df[n - 1]>>
             ELSE <<df[n - 1], df[n]>>

\* detect_entry_15m(df_m15, trend) on bars = <<prev, last>>, the two candles
\* get_last_two_closed returns, or NoBars; LIMIT_PULLBACK_PCT counts tenths
detect_entry_15m(cfg, bars, trend) ==
    IF bars = NoBars THEN Detection("none", "not enough closed bars", "market", NoPrice)
    ELSE
    LET prev == bars[1]
        last == bars[2]
        last_range == last.high - last.low
        body == Abs(last.close - last.open)
        big == last_range >= cfg.LARGE_CANDLE_THRESHOLD_USD /\ body > Tol
    IN  IF trend \in {"true_bull", "weak_bull"}
        THEN IF candle_is_bear(prev) /\ candle_is_bull(last)
             THEN IF big
                  THEN Detection("long", "bull entry with limit (big candle)", "limit",
                                 bull_limit_price(cfg, last))
                  ELSE IF valid_market_bull(prev, last)
                  THEN Detection("long", "bull entry pattern valid", "market", NoPrice)
                  ELSE IF ~(last.low <= prev.low + Tol)
                  THEN Detection("none", "green low above prev low", "market", NoPrice)
                  ELSE Detection("none", "green close below prev close", "market", NoPrice)
             ELSE Detection("none", "no red->green pattern", "market", NoPrice)
        ELSE IF trend \in {"true_bear", "weak_bear"}
        THEN IF candle_is_bull(prev) /\ candle_is_bear(last)
             THEN IF big
                  THEN Detection("short", "bear entry with limit (big candle)", "limit",
                                 bear_limit_price(cfg, last))
                  ELSE IF valid_market_bear(prev, last)
                  THEN Detection("short", "bear entry pattern valid", "market", NoPrice)
                  ELSE IF ~(last.high >= prev.high - Tol)
                  THEN Detection("none", "red high below prev high", "market", NoPrice)
                  ELSE Detection("none", "red close above prev close", "market", NoPrice)
             ELSE Detection("none", "no green->red pattern", "market", NoPrice)
        ELSE Detection("none", "trend not supporting entry", "market", NoPrice)

\* the timeframe detect_entry_15m names in its call of get_last_two_closed
M15 == [unit |-> "M", n |-> 15]

\* detect_entry_15m(df_m15, trend) on the fetched rows, run at the time `now`
closed_bars_at(df, now) == get_last_two_closed(df, M15, now, 1)
detect_entry_15m_at(cfg, df, trend, now) ==
    detect_entry_15m(cfg, closed_bars_at(df, now), trend)

\* the values analyze_trend returns
Trends == {"true_bull", "true_bear", "weak_bull", "weak_bear", "neutral"}

\* a float: a number, or NaN (np.nan, the value of an EMA whose period is not in
\* the list given to analyze_trend)
Float(v) == [nan |-> FALSE, v |-> v]
NaN == [nan |-> TRUE, v |-> 0]

\* the comparisons of floats: every comparison with NaN is false
float_gt(a, b) == ~a.nan /\ ~b.nan /\ a.v > b.v
float_lt(a, b) == ~a.nan /\ ~b.nan /\ a.v < b.v
float_eq(a, b) == ~a.nan /\ ~b.nan /\ a.v = b.v

\* a faulty variant: the weak labels are tested before the true ones, with one
\* comparison each
analyze_trend_one_sided(e9, e20, e50) ==
    IF float_lt(e9, e20) THEN "weak_bull"
    ELSE IF float_gt(e9, e20) THEN "weak_bear"
    ELSE "neutral"

\* analyze_trend from the three EMA values of the last H1 candle on: e9, e20, e50
analyze_trend(e9, e20, e50) ==
    IF float_gt(e9, e20) /\ float_gt(e20, e50) THEN "true_bull"
    ELSE IF float_lt(e9, e20) /\ float_lt(e20, e50) THEN "true_bear"
    ELSE IF float_lt(e9, e20) /\ float_gt(e20, e50) THEN "weak_bull"
    ELSE IF float_gt(e9, e20) /\ float_lt(e20, e50) THEN "weak_bear"
    ELSE "neutral"

\* e.get(p, np.nan): e holds, under each period of emas_trend, the EMA of that
\* period at the last candle (values, in the order of emas_trend)
ema_get(emas_trend, values, p) ==
    IF \E i \in 1..Len(emas_trend) : emas_trend[i] = p
    THEN values[CHOOSE i \in 1..Len(emas_trend) : emas_trend[i] = p]
    ELSE NaN

\* analyze_trend(df_h1, emas_trend) from the EMAs of the configured periods on
analyze_trend_of(emas_trend, values) ==
    analyze_trend(ema_get(emas_trend, values, 9), ema_get(emas_trend, values, 20),
                  ema_get(emas_trend, values, 50))

-----------------------------------------------------------------------------
(* strategy.py: the two functions on their own *)

\* analyze_trend applied to the EMA values fnIn
AnalyzeTrend ==
    /\ fnOut = NoOut
    /\ fnIn.fn = "analyze_trend"
    /\ fnOut' = [trend |-> analyze_trend(fnIn.e9, fnIn.e20, fnIn.e50)]
    /\ UNCHANGED <<config, monVars, ordVars, fnIn, mainVars>>

\* detect_entry_15m applied to the candles and the trend fnIn
DetectEntry ==
    /\ fnOut = NoOut
    /\ fnIn.fn = "detect_entry_15m"
    /\ fnOut' = [det |-> detect_entry_15m(config, fnIn.bars, fnIn.trend)]
    /\ UNCHANGED <<config, monVars, ordVars, fnIn, mainVars>>

\* detect_entry_15m applied to the fetched rows fnIn.df at the time fnIn.now
DetectEntryAt ==
    /\ fnOut = NoOut
    /\ fnIn.fn = "detect_entry_15m_at"
    /\ fnOut' = [bars |-> closed_bars_at(fnIn.df, fnIn.now),
                 det |-> detect_entry_15m_at(config, fnIn.df, fnIn.trend, fnIn.now)]
    /\ UNCHANGED <<config, monVars, ordVars, fnIn, mainVars>>

\* analyze_trend applied to the EMAs of the periods config.EMAS_TREND
AnalyzeTrendOf ==
    /\ fnOut = NoOut
    /\ fnIn.fn = "analyze_trend_of"
    /\ fnOut' = [trend |-> analyze_trend_of(config.EMAS_TREND, fnIn.values)]
    /\ UNCHANGED <<config, monVars, ordVars, fnIn, mainVars>>

\* EMA values: three levels and NaN
EmaValues == {Float(Px(1)), Float(Px(2)), Float(Px(3)), NaN}

\* candles as [open, high, low, close]
Candle(o, h, l, c) == [open |-> Px(o), high |-> Px(h), low |-> Px(l), close |-> Px(c)]
\* the candle before the last: falling, rising, closing where it opened, and the
\* falling ones of the two worked examples (prices in steps of 0.1)
PrevCandles ==
    {Candle(24, 25, 22, 23), Candle(23, 25, 22, 24), Candle(23, 25, 22, 23),
     Candle(100, 100, 90, 90), Candle(97, 97, 90, 95)}
\* a candle with its high, low and close moved by a few units of 1e-12
Moved(c, dh, dl, dc) ==
    [c EXCEPT !.high = @ + dh, !.low = @ + dl, !.close = @ + dc]
\* the last candle: rising small (low under and low above the previous low),
\* falling small (high over and high under the previous high), flat, rising and
\* falling with a range over LARGE_CANDLE_THRESHOLD_USD
LastCandles ==
    {Candle(22, 26, 21, 25), Candle(23, 26, 23, 25), Candle(25, 26, 21, 22),
     Candle(24, 24, 21, 22), Candle(23, 24, 22, 23), Candle(22, 30, 21, 29),
     Candle(29, 30, 21, 22)}
    \cup
    \* a large rising one whose low stays above the previous low, the last candles
    \* of the two worked examples, and small ones whose low, close or high is at
    \* the tolerance from the previous candle's and one unit beyond it
    {Candle(23, 30, 23, 29), Candle(90, 115, 89, 110), Candle(90, 97, 89, 96),
     Moved(Candle(22, 26, 22, 25), 0, Tol, 0), Moved(Candle(22, 26, 22, 25), 0, Tol + 1, 0),
     Moved(Candle(22, 26, 21, 23), 0, 0, -Tol), Moved(Candle(22, 26, 21, 23), 0, 0, -Tol - 1),
     Moved(Candle(24, 25, 21, 22), -Tol, 0, 0), Moved(Candle(24, 25, 21, 22), -Tol - 1, 0, 0),
     Moved(Candle(25, 26, 21, 24), 0, 0, Tol), Moved(Candle(25, 26, 21, 24), 0, 0, Tol + 1)}

StrategyInputs ==
    [fn : {"analyze_trend"}, e9 : EmaValues, e20 : EmaValues, e50 : EmaValues]
    \cup [fn : {"detect_entry_15m"},
          bars : {NoBars} \cup {<<p, l>> : p \in PrevCandles, l \in LastCandles},
          trend : Trends]

\* the rows fetch_bars returns for the entry timeframe: the last k of four
\* candles (rising, falling, rising under the low before, falling), one every
\* interval of the timeframe, the final row opened at FinalOpen
FinalOpen == 4 * 3600
Row(t, c) == [time |-> t, open |-> c.open, high |-> c.high, low |-> c.low, close |-> c.close]
FrameCandles ==
    <<Candle(23, 25, 22, 24), Candle(24, 25, 22, 23), Candle(22, 26, 21, 25),
      Candle(25, 26, 21, 22)>>
Frame(tf, k) ==
    LET secs == 60 * (IF tf.unit = "M" THEN tf.n ELSE tf.n * 60)
    IN  [i \in 1..k |-> Row(FinalOpen - (k - i) * secs, FrameCandles[4 - k + i])]
\* the clock: seconds after the final row opened
Delays == {5, 299, 300, 301, 302, 900, 901, 902, 1200, 3600, 3601, 3602}
Nows == {FinalOpen + d : d \in Delays}
FrameTimeframes == {[unit |-> "M", n |-> 5], M15, [unit |-> "H", n |-> 1]}
FrameConfigs == {[BaseConfig EXCEPT !.TIMEFRAME_ENTRY = tf] : tf \in FrameTimeframes}
FrameInputs(cfg) ==
    [fn : {"detect_entry_15m_at"}, df : {Frame(cfg.TIMEFRAME_ENTRY, k) : k \in 1..4},
     trend : {"true_bull", "true_bear"}, now : Nows]

\* period lists sorted ascending: the default one and two others, and the EMAs of
\* the three periods at the last candle
PeriodLists == {<<9, 20, 50>>, <<10, 21, 50>>, <<5, 20, 100>>}
PeriodConfigs == {[BaseConfig EXCEPT !.EMAS_TREND = l] : l \in PeriodLists}
PeriodInputs ==
    [fn : {"analyze_trend_of"}, values : [1..3 -> EmaValues]]

\* the large-candle threshold of BaseConfig and the one of the worked examples
StrategyConfigs ==
    {BaseConfig, [BaseConfig EXCEPT !.LARGE_CANDLE_THRESHOLD_USD = Px(20)]}

\* LIMIT_PULLBACK_PCT from 0 to 1 in tenths
PullbackTenths == 0..10
PullbackConfigs == {[BaseConfig EXCEPT !.LIMIT_PULLBACK_PCT = k] : k \in PullbackTenths}

\* the detector under a bullish and a bearish trend, on every pair of candles
PullbackInputs ==
    [fn : {"detect_entry_15m"},
     bars : {<<p, l>> : p \in PrevCandles, l \in LastCandles},
     trend : {"true_bull", "weak_bear"}]

StrategyInit ==
    /\ \/ config \in StrategyConfigs /\ fnIn \in StrategyInputs
       \/ config \in FrameConfigs /\ fnIn \in FrameInputs(config)
       \/ config \in PeriodConfigs /\ fnIn \in PeriodInputs
       \/ config \in PullbackConfigs /\ fnIn \in PullbackInputs
    /\ fnOut = NoOut
    /\ orders = <<>>
    /\ cancelRes = NoRes
    /\ tick = NoTick
    /\ positions = {}
    /\ nextTicket = 1
    /\ tightened_positions = {}
    /\ monPc = "idle"
    /\ monSnap = <<>>
    /\ monIdx = 0
    /\ modReq = NoReq
    /\ MainOff

StrategyNext ==
    \/ AnalyzeTrend
    \/ DetectEntry
    \/ DetectEntryAt
    \/ AnalyzeTrendOf

SpecStrategy == StrategyInit /\ [][StrategyNext]_vars

\* analyze_trend has answered
Classified == fnOut # NoOut /\ fnIn.fn = "analyze_trend"

\* the reference table of the trend labels
reference_label(fast, mid, slow) ==
    CASE float_gt(fast, mid) /\ float_gt(mid, slow) -> "true_bull"
      [] float_lt(fast, mid) /\ float_lt(mid, slow) -> "true_bear"
      [] float_lt(fast, mid) /\ float_gt(mid, slow) -> "weak_bull"
      [] float_gt(fast, mid) /\ float_lt(mid, slow) -> "weak_bear"
      [] OTHER -> "neutral"

Detected == fnOut # NoOut /\ fnIn.fn = "detect_entry_15m"

\* the one-bar reversal a trend asks for is in the candles
ReversalFor(trend, bars) ==
    /\ bars # NoBars
    /\ \/ /\ trend \in {"true_bull", "weak_bull"}
          /\ bars[1].close < bars[1].open /\ bars[2].close > bars[2].open
       \/ /\ trend \in {"true_bear", "weak_bear"}
          /\ bars[1].close > bars[1].open /\ bars[2].close < bars[2].open

\* C20: detect_entry_15m returns long only for a bull trend with prev falling and
\* last rising, short only for a bear trend with prev rising and last falling,
\* and for a neutral trend or without that reversal no direction, a market hint
\* and no limit price.
C20_DirectionOnlyOnReversalWithTrend ==
    Detected =>
        LET d == fnOut.det
        IN  /\ d.direction = "long" =>
                  fnIn.trend \in {"true_bull", "weak_bull"}
                  /\ ReversalFor(fnIn.trend, fnIn.bars)
            /\ d.direction = "short" =>
                  fnIn.trend \in {"true_bear", "weak_bear"}
                  /\ ReversalFor(fnIn.trend, fnIn.bars)
            /\ ~ReversalFor(fnIn.trend, fnIn.bars) =>
                  d.direction = "none" /\ d.type = "market" /\ d.price = NoPrice

\* the candles detect_entry_15m looked at, for a call that saw two closed candles
PrevOf(in) == in.bars[1]
LastOf(in) == in.bars[2]

\* a bull trend, a falling candle, then a rising one
BullSetup ==
    /\ Detected
    /\ fnIn.bars # NoBars
    /\ fnIn.trend \in {"true_bull", "weak_bull"}
    /\ PrevOf(fnIn).close < PrevOf(fnIn).open
    /\ LastOf(fnIn).close > LastOf(fnIn).open

\* the last candle is a big one: range at least the threshold, body above eps
BigLast ==
    /\ LastOf(fnIn).high - LastOf(fnIn).low >= config.LARGE_CANDLE_THRESHOLD_USD
    /\ Abs(LastOf(fnIn).close - LastOf(fnIn).open) > Tol

\* the worked example of the big-candle rule, prices in steps of 0.1:
\* prev = (open 10, close 9), last = (open 9, close 11, high 11.5, low 8.9),
\* threshold 2.0, pullback 0.3
BigExample ==
    /\ Detected
    /\ fnIn.bars = <<Candle(100, 100, 90, 90), Candle(90, 115, 89, 110)>>
    /\ fnIn.trend = "true_bull"
    /\ config.LARGE_CANDLE_THRESHOLD_USD = Px(20)

\* C21: with a bull trend, prev falling and last rising, a last candle whose
\* range is at least the threshold and whose body is above eps gives a long limit
\* order at last.close - pullback_pct * (last.close - last.open), whether or not
\* the market condition holds; in the worked example the price is 10.4.
C21_BullBigCandleLimit ==
    /\ (BullSetup /\ BigLast) =>
          /\ fnOut.det.direction = "long"
          /\ fnOut.det.type = "limit"
          /\ 10 * (LastOf(fnIn).close - fnOut.det.price) =
                config.LIMIT_PULLBACK_PCT * (LastOf(fnIn).close - LastOf(fnIn).open)
    /\ BigExample => fnOut.det.type = "limit" /\ fnOut.det.price = Px(104)

\* C21 witness: a big rising candle whose low stays above the previous low, so
\* that the market condition fails, has been answered.
C21_Witness ==
    /\ BullSetup /\ BigLast
    /\ LastOf(fnIn).low > PrevOf(fnIn).low + Tol
    /\ fnOut.det.type = "limit"

\* the worked example of the market rule, prices in steps of 0.1:
\* prev = (low 9.0, close 9.5), last = (low 8.9, close 9.6, open 9.0, high 9.7)
MarketExample ==
    /\ Detected
    /\ fnIn.bars = <<Candle(97, 97, 90, 95), Candle(90, 97, 89, 96)>>
    /\ fnIn.trend = "true_bull"
    /\ config.LARGE_CANDLE_THRESHOLD_USD = Px(20)

\* C22: with a bull trend, prev falling, last rising and the range of the last
\* candle below the threshold, the answer is a market long exactly when
\* last.low <= prev.low + eps and last.close >= prev.close - eps; otherwise it is
\* no entry, for the reason "green low above prev low" when last.low > prev.low
\* + eps and "green close below prev close" otherwise.
C22_BullMarketRule ==
    /\ (BullSetup /\ LastOf(fnIn).high - LastOf(fnIn).low < config.LARGE_CANDLE_THRESHOLD_USD) =>
          LET undercut == LastOf(fnIn).low <= PrevOf(fnIn).low + Tol
              recovered == LastOf(fnIn).close >= PrevOf(fnIn).close - Tol
          IN  /\ fnOut.det.type = "market" /\ fnOut.det.price = NoPrice
              /\ fnOut.det.direction = "long" <=> (undercut /\ recovered)
              /\ fnOut.det.direction \in {"long", "none"}
              /\ (undercut /\ recovered) => fnOut.det.reason = "bull entry pattern valid"
              /\ ~undercut => fnOut.det.reason = "green low above prev low"
              /\ (undercut /\ ~recovered) =>
                    fnOut.det.reason = "green close below prev close"
    /\ MarketExample => fnOut.det.direction = "long" /\ fnOut.det.type = "market"

\* C22 witness: a small rising candle that undercuts the previous low and closes
\* one unit further below the previous close than eps allows has been refused.
C22_Witness ==
    /\ BullSetup
    /\ LastOf(fnIn).high - LastOf(fnIn).low < config.LARGE_CANDLE_THRESHOLD_USD
    /\ LastOf(fnIn).low <= PrevOf(fnIn).low + Tol
    /\ LastOf(fnIn).close = PrevOf(fnIn).close - Tol - 1
    /\ fnOut.det.direction = "none"

\* the mirror of a price, of a candle (high and low change places) and of a trend
MirrorAxis == Px(120)
MirrorPrice(p) == MirrorAxis - p
MirrorCandle(c) ==
    [open |-> MirrorPrice(c.open), high |-> MirrorPrice(c.low),
     low |-> MirrorPrice(c.high), close |-> MirrorPrice(c.close)]
MirrorTrend(trend) == IF trend = "true_bear" THEN "true_bull" ELSE "weak_bull"
BearAsked == Detected /\ fnIn.bars # NoBars /\ fnIn.trend \in {"true_bear", "weak_bear"}

\* C23: for a bear trend the decision (limit, market or none) is the decision of
\* the bullish branch on the price-mirrored candles with the bull trend of the
\* same strength: short where that one is long, the same order type, and a
\* sell-limit price that is the mirror of the buy-limit price; a market short
\* is given only when last.high >= prev.high - eps and last.close <= prev.close
\* + eps.
C23_BearMirrorsBull ==
    BearAsked =>
        LET m == detect_entry_15m(config, <<MirrorCandle(PrevOf(fnIn)), MirrorCandle(LastOf(fnIn))>>,
                                  MirrorTrend(fnIn.trend))
        IN  /\ fnOut.det.direction = "short" <=> m.direction = "long"
            /\ fnOut.det.direction = "none" <=> m.direction = "none"
            /\ fnOut.det.type = m.type
            /\ fnOut.det.type = "limit" => fnOut.det.price = MirrorPrice(m.price)
            /\ fnOut.det.type = "market" => fnOut.det.price = NoPrice
            /\ (fnOut.det.direction = "short" /\ fnOut.det.type = "market") =>
                  /\ LastOf(fnIn).high >= PrevOf(fnIn).high - Tol
                  /\ LastOf(fnIn).close <= PrevOf(fnIn).close + Tol

\* C23 witness: a small falling candle after a rising one, its high one unit
\* further under the previous high than eps allows, has been refused in a bear
\* trend.
C23_Witness ==
    /\ BearAsked
    /\ PrevOf(fnIn).close > PrevOf(fnIn).open /\ LastOf(fnIn).close < LastOf(fnIn).open
    /\ LastOf(fnIn).high = PrevOf(fnIn).high - Tol - 1
    /\ fnOut.det.direction = "none"

\* detect_entry_15m has answered on fetched rows
DetectedAt == fnOut # NoOut /\ fnIn.fn = "detect_entry_15m_at"

\* the seconds of the configured entry timeframe
EntrySeconds ==
    60 * (IF config.TIMEFRAME_ENTRY.unit = "M" THEN config.TIMEFRAME_ENTRY.n
          ELSE 60 * config.TIMEFRAME_ENTRY.n)

\* C24: the detector works on two closed candles of the configured entry
\* timeframe: the final row is discarded exactly when its open time plus the
\* duration of TIMEFRAME_ENTRY is later than now minus the safety second, and
\* then the two rows before it are (prev, last); otherwise the final two rows
\* are; with fewer than two such rows there is no direction.
C24_TwoClosedOfConfiguredTimeframe ==
    DetectedAt =>
        LET df == fnIn.df
            n == Len(df)
            discarded == df[n].time + EntrySeconds > fnIn.now - 1
            usable == IF discarded THEN n - 1 ELSE n
        IN  IF usable >= 2
            THEN fnOut.bars = <<df[usable - 1], df[usable]>>
            ELSE fnOut.bars = NoBars /\ fnOut.det.direction = "none"

\* the same statement where TIMEFRAME_ENTRY is M15
C24_HoldsForM15 == config.TIMEFRAME_ENTRY = M15 => C24_TwoClosedOfConfiguredTimeframe

\* C29: the answer of the detector depends on the rows and the trend only: run
\* at any other time of the clock, on the same rows and trend, it gives the same
\* direction, reason and order hint.
C29_DetectorIndependentOfClock ==
    DetectedAt =>
        \A t \in Nows : detect_entry_15m_at(config, fnIn.df, fnIn.trend, t) = fnOut.det

\* analyze_trend has answered for the configured periods
ClassifiedOf == fnOut # NoOut /\ fnIn.fn = "analyze_trend_of"

\* C30: for every configured period list sorted ascending the classifier
\* compares the EMAs of the configured periods: fast > mid > slow gives
\* true_bull, fast < mid < slow true_bear, fast < mid > slow weak_bull and
\* fast > mid < slow weak_bear, whatever the three periods are.
C30_ConfiguredPeriodsCompared ==
    ClassifiedOf =>
        LET fast == fnIn.values[1]
            mid == fnIn.values[2]
            slow == fnIn.values[3]
        IN  /\ (float_gt(fast, mid) /\ float_gt(mid, slow)) => fnOut.trend = "true_bull"
            /\ (float_lt(fast, mid) /\ float_lt(mid, slow)) => fnOut.trend = "true_bear"
            /\ (float_lt(fast, mid) /\ float_gt(mid, slow)) => fnOut.trend = "weak_bull"
            /\ (float_gt(fast, mid) /\ float_lt(mid, slow)) => fnOut.trend = "weak_bear"

\* the same statement for the period list (9, 20, 50)
C30_HoldsForDefaultPeriods ==
    config.EMAS_TREND = <<9, 20, 50>> => C30_ConfiguredPeriodsCompared

\* the detector has answered with a limit order
LimitEmitted == Detected /\ fnOut.det.type = "limit"

\* C37: for every LIMIT_PULLBACK_PCT from 0 to 1 the limit price of a big candle
\* lies between the open and the close of the last candle, both included: at or
\* below the close for a long, at or above it for a short.
C37_LimitWithinBody ==
    (LimitEmitted /\ config.LIMIT_PULLBACK_PCT \in 0..10) =>
        LET last == fnIn.bars[2]
        IN  IF fnOut.det.direction = "long"
            THEN last.open <= fnOut.det.price /\ fnOut.det.price <= last.close
            ELSE last.close <= fnOut.det.price /\ fnOut.det.price <= last.open

\* C37 witness: with a pullback of 1 a short has been answered with its limit at
\* the open of the falling candle, and the candle has a body.
C37_Witness ==
    /\ LimitEmitted
    /\ config.LIMIT_PULLBACK_PCT = 10
    /\ fnOut.det.direction = "short"
    /\ fnOut.det.price = fnIn.bars[2].open
    /\ fnIn.bars[2].open > fnIn.bars[2].close

\* C20 witness: a weak bear with a rising candle before a large falling one has
\* been answered with a short at a limit price.
C20_Witness ==
    /\ Detected
    /\ fnIn.trend = "weak_bear"
    /\ ReversalFor(fnIn.trend, fnIn.bars)
    /\ fnOut.det.direction = "short"
    /\ fnOut.det.type = "limit"

-----------------------------------------------------------------------------
(* scan_ema.py: scan_once from detection to the prepared request *)

\* scan_once between the detection and send_order: the request it prepares, or
\* NoRequest and the reason it returns with; tk, tkb and tkv are the quotes
\* get_tick, build_order_request and _validate_limit_price read, in this order,
\* and the record says which of them were read
scan_prepare(cfg, det, tk, tkb, tkv) ==
    LET stop(reason, r1, r2, r3) ==
            [req |-> NoRequest, reason |-> reason, tk |-> r1, tkb |-> r2, tkv |-> r3]
        long == det.direction = "long"
        volume == round_lot(cfg, cfg.DEFAULT_VOLUME)
    IN  IF det.direction \notin {"long", "short"} THEN stop(det.reason, NoRead, NoRead, NoRead)
        ELSE IF tk = NoTick THEN stop("no tick data", tk, NoRead, NoRead)
        ELSE IF volume < cfg.MIN_LOT THEN stop("volume below min lot", tk, NoRead, NoRead)
        ELSE
        LET entry_price_ref == IF det.type = "limit" THEN det.price
                               ELSE IF long THEN tk.ask ELSE tk.bid
            sl_price_ref == IF long THEN entry_price_ref - cfg.SL_DISTANCE_USD
                            ELSE entry_price_ref + cfg.SL_DISTANCE_USD
            tp_price_ref == IF long THEN entry_price_ref + cfg.TP_DISTANCE_USD
                            ELSE entry_price_ref - cfg.TP_DISTANCE_USD
            req == build_order_request(cfg, det.direction, volume, sl_price_ref,
                                       tp_price_ref, det.type, det.price, tkb, tkv)
            validated == det.type = "limit" /\ tkb # NoTick
            r3 == IF validated THEN tkv ELSE NoRead
        IN  IF req = NoRequest
            THEN stop(IF det.type = "limit" THEN "limit_request_invalid"
                      ELSE "request_build_failed", tk, tkb, r3)
            ELSE [req |-> req, reason |-> "send", tk |-> tk, tkb |-> tkb, tkv |-> r3]

\* send_order(request): the result it returns, by the answer of the terminal
SendOutcomes == {"done", "reject", "exception", "disallowed"}
send_order(cfg, out) == IF cfg.DRY_RUN THEN "dry-run" ELSE out

\* the locals of scan_once when it starts
NewScan ==
    [direction |-> "none", type |-> "market", price |-> NoPrice,
     tk |-> NoRead, tkb |-> NoRead, tkv |-> NoRead,
     sent |-> 0, res |-> "none", waited |-> 0, filled |-> FALSE,
     cancelCalls |-> 0, cancel |-> NoRes, monitorCalls |-> 0]

-----------------------------------------------------------------------------
(* main_loop.py and scan_ema.py: the loop and scan_once, step by step *)

\* an exception leaves the iteration: the handler of the loop logs it, sleeps 30 s
\* and starts the next iteration with last_seen as it was
LoopExcept ==
    /\ faults < MaxFaults
    /\ faults' = faults + 1
    /\ pc' = "backoff"
    /\ sc' = NoScan
    /\ scanRet' = NoRet

\* time.sleep(30) of the except clause is over: the next iteration
Backoff ==
    /\ pc = "backoff"
    /\ pc' = "fetch"
    /\ UNCHANGED <<config, monVars, ordVars, fnVars, candle, last_seen, last_time, sc,
                   scanRet, scanStarts, sends, faults, startup, shutdowns>>

\* mt5_utils.TF_MAP: the timeframe codes fetch_bars knows, as [unit, n]
TF_MAP ==
    {[unit |-> "M", n |-> 1], [unit |-> "M", n |-> 5], [unit |-> "M", n |-> 15],
     [unit |-> "M", n |-> 30], [unit |-> "H", n |-> 1], [unit |-> "H", n |-> 2]}

\* the symbols the terminal resolves
TerminalSymbols == {"XAUUSDm"}

\* fetch_bars: ValueError for a code that is not in TF_MAP, RuntimeError when
\* copy_rates_from returns None, as it does for a symbol the terminal does not
\* know and whenever the terminal fails (f)
fetch_bars(cfg, f) ==
    IF cfg.TIMEFRAME_ENTRY \notin TF_MAP THEN "raise"
    ELSE IF cfg.SYMBOL \notin TerminalSymbols THEN "raise"
    ELSE f

\* a faulty variant: an exception of positions_get is not swallowed as "no position"
get_open_positions_strict(g, open) == open

\* scan_ema.get_open_positions: the open positions, [] when positions_get raises
get_open_positions(g, open) == IF g = "ok" THEN open ELSE {}

\* a faulty variant: last_seen is unset again after a scan
seen_after_scan_unset(last) == 0

\* `last_seen = last_time` after a scan: the open time of the candle scanned
seen_after_scan(last) == last

\* the head of an iteration: fetch_bars, the first-run initialisation, the test for
\* a new candle and the call of scan_once; without a new candle the loop sleeps
\* and fetches again
MainFetch ==
    /\ pc = "fetch"
    /\ \E f \in {"ok", "raise"}, g \in {"ok", "raise"} :
         IF fetch_bars(config, f) = "raise"
         THEN /\ f = "raise"
              /\ g = "ok"
              /\ LoopExcept
              /\ UNCHANGED <<last_seen, last_time, scanStarts, sends, monPc, startup>>
         ELSE /\ last_time' = candle
              /\ UNCHANGED <<sc, scanRet, faults>>
              /\ sends' = IF candle = last_time THEN sends ELSE 0
              /\ IF last_seen = 0
                 THEN /\ last_seen' = candle
                      /\ scanStarts' = 0
                      /\ startup' = IF get_open_positions(g, positions) # {} THEN "monitor"
                                    ELSE IF positions # {} THEN "missed" ELSE "flat"
                      /\ IF get_open_positions(g, positions) # {}
                         THEN pc' = "startup_monitor" /\ monPc' = "poll"
                         ELSE pc' = "fetch" /\ UNCHANGED monPc
                 ELSE IF candle > last_seen
                 THEN /\ pc' = "scan_start"
                      /\ scanStarts' = IF candle = last_time THEN scanStarts + 1 ELSE 1
                      /\ startup' = "scanned"
                      /\ UNCHANGED <<last_seen, monPc>>
                 ELSE /\ pc' = "fetch"
                      /\ scanStarts' = IF candle = last_time THEN scanStarts ELSE 0
                      /\ UNCHANGED <<last_seen, monPc, startup>>
    /\ UNCHANGED <<config, ordVars, fnVars, tick, positions, nextTicket,
                   tightened_positions, monSnap, monIdx, modReq, candle, shutdowns>>

\* after a monitor main_loop called has returned: fetch_bars again and last_seen
\* moves to the newest candle
MainAfterMonitor ==
    /\ pc \in {"startup_monitor", "already_monitor"}
    /\ monPc = "idle"
    /\ \E f \in {"ok", "raise"} :
         IF fetch_bars(config, f) = "raise"
         THEN f = "raise" /\ LoopExcept /\ UNCHANGED last_seen
         ELSE /\ last_seen' = candle
              /\ pc' = "fetch"
              /\ UNCHANGED <<sc, scanRet, faults>>
    /\ UNCHANGED <<config, monVars, ordVars, fnVars, candle, last_time, scanStarts, sends>>
    /\ UNCHANGED <<startup, shutdowns>>

\* scan_once up to the check for an open position
ScanStart ==
    /\ pc = "scan_start"
    /\ \E e \in {"ok", "raise"}, g \in {"ok", "raise"} :
         IF e = "raise"
         THEN LoopExcept
         ELSE /\ sc' = NewScan
              /\ UNCHANGED faults
              /\ IF get_open_positions(g, positions) # {}
                 THEN /\ scanRet' = [ok |-> FALSE, res |-> "position_already_open"]
                      /\ pc' = "scan_ret"
                 ELSE /\ pc' = "scan_entry"
                      /\ UNCHANGED scanRet
    /\ UNCHANGED <<config, monVars, ordVars, fnVars, candle, last_seen, last_time,
                   scanStarts, sends>>
    /\ UNCHANGED <<startup, shutdowns>>

\* candles the terminal returns to scan_once, as <<prev, last>>: too few bars, a
\* large rising candle after a falling one (pullback price Px(27)), a large one
\* whose pullback price lies within MIN_STOP_DISTANCE of the quote, a small
\* rising one that engulfs, a small falling one that engulfs
Bar(o, h, l, c) == [open |-> o, high |-> h, low |-> l, close |-> c]
SampleBars ==
    {NoBars,
     <<Bar(Px(24), Px(24), Px(20), Px(20)), Bar(Px(20), Px(30), Px(20), Px(30))>>,
     <<Bar(Px(26), Px(26), Px(24), Px(24)), Bar(Px(24), Px(30), Px(24), Px(30))>>,
     <<Bar(Px(30), Px(30), Px(27), Px(28)), Bar(Px(27), Px(30), Px(27), Px(29))>>,
     <<Bar(Px(27), Px(30), Px(27), Px(29)), Bar(Px(30), Px(30), Px(27), Px(28))>>}

\* quotes during a scan: none, or at the close of the last candle
SpecQuotes == {NoTick, [bid |-> Px(29), ask |-> Px(30)]}

\* what detect_entry_15m returns on them, the trend being any of the five
Detections(cfg) == {detect_entry_15m(cfg, bars, trend) : bars \in SampleBars, trend \in Trends}

\* scan_once from the detection to the prepared request, applied to the
\* detection and the three quotes of fnIn
ScanPrepare ==
    /\ fnOut = NoOut
    /\ fnIn.fn = "scan_prepare"
    /\ fnOut' = scan_prepare(config, fnIn.det, fnIn.tk, fnIn.tkb, fnIn.tkv)
    /\ UNCHANGED <<config, monVars, ordVars, fnIn, mainVars>>

\* the quote of the terminal at the three reads: none, or one of three quotes
\* a price step apart
PrepareQuotes ==
    {NoTick, [bid |-> Px(29), ask |-> Px(30)], [bid |-> Px(30), ask |-> Px(31)],
     [bid |-> Px(28), ask |-> Px(29)]}

PrepareConfigs == {[BaseConfig EXCEPT !.LOT_STEP = s] : s \in {2, 3}}

PrepareInit ==
    /\ config \in PrepareConfigs
    /\ fnIn \in [fn : {"scan_prepare"}, det : Detections(config), tk : PrepareQuotes,
                 tkb : PrepareQuotes, tkv : PrepareQuotes]
    /\ fnOut = NoOut
    /\ orders = <<>>
    /\ cancelRes = NoRes
    /\ tick = NoTick
    /\ positions = {}
    /\ nextTicket = 1
    /\ tightened_positions = {}
    /\ monPc = "idle"
    /\ monSnap = <<>>
    /\ monIdx = 0
    /\ modReq = NoReq
    /\ MainOff

SpecPrepare == PrepareInit /\ [][ScanPrepare]_vars

\* scan_once has prepared a request to submit
Prepared == fnOut # NoOut /\ fnIn.fn = "scan_prepare" /\ fnOut.req # NoRequest

\* the stop-loss and the take-profit of the request lie SL_DISTANCE_USD and
\* TP_DISTANCE_USD from the request's own price, on the losing and the winning side
StopsAroundOwnPrice(cfg, req) ==
    IF req.type \in {"BUY", "BUY_LIMIT"}
    THEN req.sl = req.price - cfg.SL_DISTANCE_USD /\ req.tp = req.price + cfg.TP_DISTANCE_USD
    ELSE req.sl = req.price + cfg.SL_DISTANCE_USD /\ req.tp = req.price - cfg.TP_DISTANCE_USD

\* C33: every request scan_once prepares for submission, limit or market, has its
\* stop-loss exactly SL_DISTANCE_USD on the losing side of the request's own
\* price and its take-profit exactly TP_DISTANCE_USD on the winning side, also
\* when the quote the builder reads differs from the quote the scan read.
C33_StopsAroundRequestPrice ==
    Prepared => StopsAroundOwnPrice(config, fnOut.req)

\* C33 where it holds: for limit requests, and for market requests when the
\* builder reads the quote the scan read.
C33_HoldsForLimitOrSteadyQuote ==
    (Prepared /\ (fnOut.req.action = "PENDING" \/ fnIn.tk = fnIn.tkb)) =>
        StopsAroundOwnPrice(config, fnOut.req)

\* the pending order or the position the terminal books for an accepted request
BookedOrder(req, ticket) ==
    [ticket |-> ticket, magic |-> req.magic,
     type |-> IF req.type = "BUY_LIMIT" THEN 0 ELSE 1, price |-> req.price, sl |-> req.sl]
BookedPosition(req, ticket) ==
    [ticket |-> ticket, type |-> IF req.type = "BUY" THEN 0 ELSE 1,
     price_open |-> req.price, sl |-> req.sl]

\* scan_once from fetching the bars (fetch_bars raises when the terminal returns
\* none) to send_order and the branch after it: a simulated order returns, a
\* pending one enters the wait, a market one the monitor.  A quote that is not
\* read and an answer that is not asked for are fixed to one value.
ScanEntry ==
    /\ pc = "scan_entry"
    /\ \/ /\ LoopExcept
          /\ UNCHANGED <<tick, positions, orders, nextTicket, monPc, sends>>
       \/ \E det \in Detections(config) :
          \E tk \in SpecQuotes, tkb \in SpecQuotes, tkv \in SpecQuotes,
             out \in SendOutcomes :
         LET b == scan_prepare(config, det, tk, tkb, tkv)
             seen == [sc EXCEPT !.direction = det.direction, !.type = det.type,
                                !.price = det.price, !.tk = b.tk, !.tkb = b.tkb,
                                !.tkv = b.tkv]
             placed == ~config.DRY_RUN /\ out = "done"
             res == send_order(config, out)
         IN  /\ b.tk = NoRead => tk = NoTick
             /\ b.tkb = NoRead => tkb = NoTick
             /\ b.tkv = NoRead => tkv = NoTick
             /\ b.req = NoRequest => out = "done"
             /\ UNCHANGED faults
             /\ tick' = IF b.tkv # NoRead THEN b.tkv
                        ELSE IF b.tkb # NoRead THEN b.tkb
                        ELSE IF b.tk # NoRead THEN b.tk ELSE tick
             /\ IF b.req = NoRequest
                THEN /\ sc' = seen
                     /\ scanRet' = [ok |-> FALSE, res |-> b.reason]
                     /\ pc' = "scan_ret"
                     /\ UNCHANGED <<positions, orders, nextTicket, monPc, sends>>
                ELSE /\ placed => nextTicket <= MaxTicket
                     /\ config.DRY_RUN => out = "done"
                     /\ sends' = sends + 1
                     /\ nextTicket' = IF placed THEN nextTicket + 1 ELSE nextTicket
                     /\ IF config.DRY_RUN
                        THEN /\ sc' = [seen EXCEPT !.sent = 1, !.res = res]
                             /\ scanRet' = [ok |-> TRUE, res |-> res]
                             /\ pc' = "scan_ret"
                             /\ UNCHANGED <<positions, orders, monPc>>
                        ELSE IF b.req.action = "PENDING"
                        THEN /\ sc' = [seen EXCEPT !.sent = 1, !.res = res]
                             /\ orders' = IF placed
                                          THEN Append(orders, BookedOrder(b.req, nextTicket))
                                          ELSE orders
                             /\ pc' = "pending_wait"
                             /\ UNCHANGED <<positions, monPc, scanRet>>
                        ELSE /\ sc' = [seen EXCEPT !.sent = 1, !.res = res,
                                                   !.monitorCalls = 1]
                             /\ positions' = IF placed
                                             THEN positions \cup
                                                    {BookedPosition(b.req, nextTicket)}
                                             ELSE positions
                             /\ pc' = "scan_monitor"
                             /\ monPc' = "poll"
                             /\ UNCHANGED <<orders, scanRet>>
    /\ UNCHANGED <<config, fnVars, cancelRes, tightened_positions, monSnap, monIdx,
                   modReq, candle, last_seen, last_time, scanStarts>>
    /\ UNCHANGED <<startup, shutdowns>>

\* a faulty variant: one position is not taken as the fill
pending_filled_many(open) == Cardinality(open) > 1

\* `if positions and len(positions) > 0`: the pending order counts as filled
pending_filled(open) == open # {}

\* one round of the pending wait: positions_get is not guarded; a position ends
\* the wait and the monitor takes over, otherwise poll_int more seconds are waited
PendingPoll ==
    /\ pc = "pending_wait"
    /\ wait_continues(config, sc.waited)
    /\ \E g \in {"ok", "raise"} :
         IF g = "raise"
         THEN LoopExcept /\ UNCHANGED monPc
         ELSE /\ UNCHANGED <<scanRet, faults>>
              /\ IF pending_filled(positions)
                 THEN /\ sc' = [sc EXCEPT !.filled = TRUE, !.monitorCalls = @ + 1]
                      /\ pc' = "scan_monitor"
                      /\ monPc' = "poll"
                 ELSE /\ sc' = [sc EXCEPT
                                   !.waited = @ + poll_int(config)]
                      /\ UNCHANGED <<pc, monPc>>
    /\ UNCHANGED <<config, ordVars, fnVars, tick, positions, nextTicket,
                   tightened_positions, monSnap, monIdx, modReq, candle, last_seen,
                   last_time, scanStarts, sends>>
    /\ UNCHANGED <<startup, shutdowns>>

\* the wait is over without a position: cancel_pending_orders_for_symbol, then
\* return (False, "pending_timeout_cancelled")
PendingTimeout ==
    /\ pc = "pending_wait"
    /\ ~wait_continues(config, sc.waited)
    /\ \E q \in QueryOutcomes : \E outs \in [1..Len(orders) -> CancelOutcomes] :
         LET r == cancel_pending_orders_for_symbol(config, q, orders, outs)
         IN  /\ sc' = [sc EXCEPT !.cancelCalls = @ + 1,
                                 !.cancel = [book |-> orders,
                                             list |-> IF q = "ok" THEN orders ELSE <<>>,
                                             res |-> r]]
             /\ orders' = Remaining(orders, r.removed)
    /\ scanRet' = [ok |-> FALSE, res |-> "pending_timeout_cancelled"]
    /\ pc' = "scan_ret"
    /\ UNCHANGED <<config, monVars, cancelRes, fnVars, candle, last_seen, last_time,
                   scanStarts, sends, faults>>
    /\ UNCHANGED <<startup, shutdowns>>

\* the monitor scan_once called has returned: return (True, res)
ScanMonitorDone ==
    /\ pc = "scan_monitor"
    /\ monPc = "idle"
    /\ scanRet' = [ok |-> TRUE, res |-> sc.res]
    /\ pc' = "scan_ret"
    /\ UNCHANGED <<config, monVars, ordVars, fnVars, candle, last_seen, last_time, sc,
                   scanStarts, sends, faults>>
    /\ UNCHANGED <<startup, shutdowns>>

\* main_loop after scan_once returned: position_already_open goes to the monitor,
\* anything else advances last_seen to the candle scanned
MainAfterScan ==
    /\ pc = "scan_ret"
    /\ sc' = NoScan
    /\ scanRet' = NoRet
    /\ IF ~scanRet.ok /\ scanRet.res = "position_already_open"
       THEN /\ pc' = "already_monitor"
            /\ monPc' = "poll"
            /\ UNCHANGED last_seen
       ELSE /\ pc' = "fetch"
            /\ last_seen' = seen_after_scan(last_time)
            /\ UNCHANGED monPc
    /\ UNCHANGED <<config, ordVars, fnVars, tick, positions, nextTicket,
                   tightened_positions, monSnap, monIdx, modReq, candle, last_time,
                   scanStarts, sends, faults>>
    /\ UNCHANGED <<startup, shutdowns>>

-----------------------------------------------------------------------------
(* The terminal as main_loop sees it *)

\* a new candle of the entry timeframe opens
CandleCloses ==
    /\ pc \notin {"exited", "stopped"}
    /\ candle < MaxCandle
    /\ candle' = candle + 1
    /\ UNCHANGED <<config, monVars, ordVars, fnVars, pc, last_seen, last_time, sc,
                   scanRet, scanStarts, sends, faults>>
    /\ UNCHANGED <<startup, shutdowns>>

\* a pending order fills: it leaves the book and becomes a position
PendingFills ==
    /\ pc \notin {"exited", "stopped"}
    /\ monPc # "check"
    /\ \E i \in 1..Len(orders) :
         /\ positions' = positions \cup
               {[ticket |-> orders[i].ticket, type |-> orders[i].type,
                 price_open |-> orders[i].price, sl |-> orders[i].sl]}
         /\ orders' = Remaining(orders, {orders[i].ticket})
    /\ UNCHANGED <<config, tick, nextTicket, tightened_positions, monPc, monSnap, monIdx,
                   modReq, cancelRes, fnVars, mainVars>>

\* DRY_RUN on or off; LOT_STEP 3 floors the default volume below MIN_LOT
SpecConfigs ==
    {[BaseConfig EXCEPT !.DRY_RUN = d, !.LOT_STEP = s] : d \in BOOLEAN, s \in {2, 3}}

\* the start of main_loop: the book is empty or holds one position opened before
Init ==
    /\ config \in SpecConfigs
    /\ tick \in SpecQuotes
    /\ \E n \in {0, 1} :
         /\ positions = {[ticket |-> t, type |-> 0, price_open |-> Px(30), sl |-> Px(22)] :
                           t \in 1..n}
         /\ nextTicket = n + 1
    /\ tightened_positions = {}
    /\ monPc = "idle"
    /\ monSnap = <<>>
    /\ monIdx = 0
    /\ modReq = NoReq
    /\ orders = <<>>
    /\ cancelRes = NoRes
    /\ fnIn = NoOut
    /\ fnOut = NoOut
    /\ pc = "fetch"
    /\ candle = 1
    /\ last_seen = 0
    /\ last_time = 0
    /\ sc = NoScan
    /\ scanRet = NoRet
    /\ scanStarts = 0
    /\ sends = 0
    /\ faults = 0
    /\ startup = "unchecked"
    /\ shutdowns = 0

Next ==
    \/ MainFetch
    \/ Backoff
    \/ MainAfterMonitor
    \/ ScanStart
    \/ ScanEntry
    \/ PendingPoll
    \/ PendingTimeout
    \/ ScanMonitorDone
    \/ MainAfterScan
    \/ MonitorPoll
    \/ MonitorCheck
    \/ CandleCloses
    \/ PendingFills
    \/ PositionCloses

Spec == Init /\ [][Next]_vars

\* C35: while the open time of the newest candle fetched never goes back,
\* last_seen never goes back either, over scans, refreshes after the monitor and
\* failed iterations, and once set at the first fetch it is never unset again;
\* it is never ahead of the newest candle.
C35_LastSeenNeverMovesBack ==
    [][/\ last_seen' >= last_seen
       /\ last_seen # 0 => last_seen' # 0
       /\ last_seen' <= candle']_vars

\* C35 witness: last_seen stands at the third candle, after scans and a failed
\* iteration.
C35_Witness ==
    /\ last_seen = 3
    /\ faults = 1
    /\ pc = "fetch"
    /\ startup = "scanned"

\* bound: the largest setting of the maximum wait and of the poll interval, in
\* half seconds
MaxWaitParts == 6

\* settings of the wait: any maximum wait, a poll interval of one second or more
WaitConfigs ==
    {[BaseConfig EXCEPT !.LIMIT_PENDING_MAX_WAIT_SECONDS = m,
                        !.LIMIT_PENDING_POLL_INTERVAL = p] :
        m \in 0..MaxWaitParts, p \in SecondParts..MaxWaitParts}

\* the pending buy limit the wait is about
WaitOrder == [ticket |-> 1, magic |-> BaseConfig.MAGIC, type |-> 0, price |-> Px(28), sl |-> Px(20)]

\* scan_once enters the pending wait: the limit order was sent and is in the
\* book, or was rejected, or has filled already
WaitInit ==
    /\ config \in WaitConfigs
    /\ tick = [bid |-> Px(29), ask |-> Px(30)]
    /\ \E res \in {"done", "reject"}, fillednow \in BOOLEAN :
         /\ sc = [NewScan EXCEPT !.direction = "long", !.type = "limit", !.price = Px(28),
                                 !.tk = tick, !.tkb = tick, !.tkv = tick,
                                 !.sent = 1, !.res = res]
         /\ res = "reject" => ~fillednow
         /\ orders = IF res = "done" /\ ~fillednow THEN <<WaitOrder>> ELSE <<>>
         /\ positions = IF fillednow
                        THEN {[ticket |-> 1, type |-> 0, price_open |-> Px(28), sl |-> Px(20)]}
                        ELSE {}
    /\ nextTicket = 2
    /\ tightened_positions = {}
    /\ monPc = "idle"
    /\ monSnap = <<>>
    /\ monIdx = 0
    /\ modReq = NoReq
    /\ cancelRes = NoRes
    /\ fnIn = NoOut
    /\ fnOut = NoOut
    /\ pc = "pending_wait"
    /\ candle = 2
    /\ last_seen = 1
    /\ last_time = 2
    /\ scanRet = NoRet
    /\ scanStarts = 1
    /\ sends = 1
    /\ faults = 0
    /\ startup = "scanned"
    /\ shutdowns = 0

\* the wait, the order filling during it, and the monitor after the hand-off
WaitNext ==
    \/ PendingPoll
    \/ PendingTimeout
    \/ PendingFills
    \/ MonitorPoll
    \/ MonitorCheck
    \/ PositionCloses
    \/ ScanMonitorDone

SpecWait == WaitInit /\ [][WaitNext]_vars

\* polls of positions_get made by the wait so far: one for every interval waited
\* and the one that saw the position
Polls == (sc.waited \div poll_int(config)) + (IF sc.filled THEN 1 ELSE 0)

\* ceil(a / b) for a >= 0, b > 0
CeilDiv(a, b) == (a + b - 1) \div b

\* the wait is over in one of its two ways: handed off to the monitor with no
\* cancellation, or the cancellation called once with no monitor
WaitEnded ==
    /\ pc \in {"scan_monitor", "scan_ret"} =>
          \/ sc.filled /\ sc.cancelCalls = 0 /\ sc.monitorCalls = 1
          \/ ~sc.filled /\ sc.cancelCalls = 1 /\ sc.monitorCalls = 0 /\ pc = "scan_ret"
                /\ sc.waited >= max_wait(config)
    /\ (pc = "scan_monitor" /\ monPc = "idle") => ENABLED ScanMonitorDone
    /\ (pc = "pending_wait" /\ ~(sc.waited < max_wait(config))) => ENABLED PendingTimeout

-----------------------------------------------------------------------------
(* main_loop from its first statement to its return *)

\* timeframe_to_minutes raised ValueError
NoMinutes == -1

\* timeframe_to_minutes: the unit letter decides, the digits are the count
timeframe_to_minutes(tf) ==
    IF tf.unit = "M" THEN tf.n
    ELSE IF tf.unit = "H" THEN tf.n * 60
    ELSE IF tf.unit = "D" THEN tf.n * 60 * 24
    ELSE NoMinutes

\* ensure_symbol returns the symbol's info; it raises ValueError when
\* mt5.symbol_info knows no such symbol
ensure_symbol(symbol) == symbol \in TerminalSymbols

\* a faulty variant: the finally clause does not tear the session down
finally_shutdown_skipped(n) == n

\* finally: shutdown_mt5()
finally_shutdown(n) == n + 1

\* where main_loop is inside its while loop
LoopPcs ==
    {"fetch", "backoff", "startup_monitor", "already_monitor", "scan_start",
     "scan_entry", "pending_wait", "scan_monitor", "scan_ret"}

\* main_loop before the loop: timeframe_to_minutes and initialize_mt5 raise to
\* the caller; ensure_symbol is called in a try whose except clause only logs,
\* so the loop is entered whether or not the symbol was resolved
MainStartup ==
    /\ pc = "init"
    /\ \E i \in {"ok", "raise"} :
         LET resolved == ensure_symbol(config.SYMBOL)
         IN  pc' = IF timeframe_to_minutes(config.TIMEFRAME_ENTRY) = NoMinutes THEN "exited"
                   ELSE IF i = "raise" THEN "exited"
                   ELSE IF resolved THEN "fetch" ELSE "fetch"
    /\ UNCHANGED <<config, monVars, ordVars, fnVars, candle, last_seen, last_time, sc,
                   scanRet, scanStarts, sends, faults, startup, shutdowns>>

\* KeyboardInterrupt anywhere inside the loop, the monitor and the sleeps
\* included: except KeyboardInterrupt logs, finally calls shutdown_mt5, and
\* main_loop returns; the frames of scan_once and of the monitor are gone
Interrupt ==
    /\ pc \in LoopPcs
    /\ pc' = "stopped"
    /\ shutdowns' = finally_shutdown(shutdowns)
    /\ sc' = NoScan
    /\ scanRet' = NoRet
    /\ monPc' = "idle"
    /\ monSnap' = <<>>
    /\ monIdx' = 0
    /\ UNCHANGED <<config, ordVars, fnVars, tick, positions, nextTicket,
                   tightened_positions, modReq, candle, last_seen, last_time,
                   scanStarts, sends, faults, startup>>

\* entry timeframes: in TF_MAP, readable but not in TF_MAP, not readable
LoopTimeframes ==
    {[unit |-> "M", n |-> 15], [unit |-> "H", n |-> 4], [unit |-> "W", n |-> 1]}

LoopConfigs ==
    {[BaseConfig EXCEPT !.SYMBOL = s, !.TIMEFRAME_ENTRY = tf] :
        s \in {"XAUUSDm", "XAUUSD"}, tf \in LoopTimeframes}

\* main_loop is called
LoopInit ==
    /\ config \in LoopConfigs
    /\ tick \in SpecQuotes
    /\ \E n \in {0, 1} :
         /\ positions = {[ticket |-> t, type |-> 0, price_open |-> Px(30), sl |-> Px(22)] :
                           t \in 1..n}
         /\ nextTicket = n + 1
    /\ tightened_positions = {}
    /\ monPc = "idle"
    /\ monSnap = <<>>
    /\ monIdx = 0
    /\ modReq = NoReq
    /\ orders = <<>>
    /\ cancelRes = NoRes
    /\ fnIn = NoOut
    /\ fnOut = NoOut
    /\ pc = "init"
    /\ candle = 1
    /\ last_seen = 0
    /\ last_time = 0
    /\ sc = NoScan
    /\ scanRet = NoRet
    /\ scanStarts = 0
    /\ sends = 0
    /\ faults = 0
    /\ startup = "unchecked"
    /\ shutdowns = 0

LoopNext ==
    \/ MainStartup
    \/ Interrupt
    \/ Next

SpecLoop == LoopInit /\ [][LoopNext]_vars

-----------------------------------------------------------------------------
(* main_loop.py: the candle boundary and the sleep until it *)

\* times are seconds since midnight UTC of the first day
safety_buffer_seconds == 5

\* next_candle_boundary(ts, interval_minutes): seconds are dropped, the minute of
\* the hour is floored to the interval and the interval added; a minute of 60
\* or more is the start of the next hour
next_candle_boundary(ts, interval_minutes) ==
    LET ts0 == ts - (ts % 60)
        minute == (ts0 % 3600) \div 60
        remainder == minute % interval_minutes
        next_minute == minute - remainder + interval_minutes
    IN  IF next_minute >= 60 THEN (ts0 - minute * 60) + 3600
        ELSE (ts0 - minute * 60) + next_minute * 60

\* sleep_for = max((next_boundary - now) + safety_buffer_seconds, floor)
sleep_for(next_boundary, now, floor) ==
    Max((next_boundary - now) + safety_buffer_seconds, floor)

\* the floor of the sleep: 3 where no new candle was seen, 5 on the other paths
sleep_floor(path) == IF path = "no_new_candle" THEN 3 ELSE 5

\* main_loop computes the boundary of the candle opened at fnIn.ts and the sleep
SleepUntilBoundary ==
    /\ fnOut = NoOut
    /\ fnIn.fn = "next_candle_boundary"
    /\ LET b == next_candle_boundary(fnIn.ts, timeframe_to_minutes(config.TIMEFRAME_ENTRY))
       IN  fnOut' = [next_boundary |-> b,
                     sleep_for |-> sleep_for(b, fnIn.now, sleep_floor(fnIn.path))]
    /\ UNCHANGED <<config, monVars, ordVars, fnIn, mainVars>>

\* candles of the timeframe open at whole intervals since midnight; FirstOpen is
\* 10:00, and the clock is read from 5 seconds after the open to 2 minutes after
\* the close
FirstOpen == 10 * 3600
CandleOpens(tf) == {FirstOpen + k * 60 * timeframe_to_minutes(tf) : k \in 0..3}
ClockAfter(tf) ==
    {5, 60 * timeframe_to_minutes(tf) - 3, 60 * timeframe_to_minutes(tf),
     60 * timeframe_to_minutes(tf) + 3, 60 * timeframe_to_minutes(tf) + 120}
SleepPaths == {"first_run", "after_monitor", "after_scan", "no_new_candle"}
BoundaryInputs(cfg) ==
    {[fn |-> "next_candle_boundary", ts |-> t, now |-> t + d, path |-> p] :
        t \in CandleOpens(cfg.TIMEFRAME_ENTRY), d \in ClockAfter(cfg.TIMEFRAME_ENTRY),
        p \in SleepPaths}

BoundaryInit ==
    /\ config \in {[BaseConfig EXCEPT !.TIMEFRAME_ENTRY = tf] : tf \in TF_MAP}
    /\ fnIn \in BoundaryInputs(config)
    /\ fnOut = NoOut
    /\ orders = <<>>
    /\ cancelRes = NoRes
    /\ tick = NoTick
    /\ positions = {}
    /\ nextTicket = 1
    /\ tightened_positions = {}
    /\ monPc = "idle"
    /\ monSnap = <<>>
    /\ monIdx = 0
    /\ modReq = NoReq
    /\ MainOff

SpecBoundary == BoundaryInit /\ [][SleepUntilBoundary]_vars

\* the boundary and the sleep have been computed
Scheduled == fnOut # NoOut /\ fnIn.fn = "next_candle_boundary"
EntryInterval == 60 * timeframe_to_minutes(config.TIMEFRAME_ENTRY)

\* C27: for every timeframe of TF_MAP the boundary is the open time floored to
\* the interval plus one interval; the sleep runs to the boundary plus the 5
\* seconds of the safety buffer and is never shorter than the floor, 3 seconds
\* where no new candle was seen and 5 seconds otherwise.
C27_BoundaryAndSleepFloor ==
    Scheduled =>
        LET floor == IF fnIn.path = "no_new_candle" THEN 3 ELSE 5
            boundary == (fnIn.ts - (fnIn.ts % EntryInterval)) + EntryInterval
        IN  /\ fnOut.next_boundary = boundary
            /\ fnOut.sleep_for >= floor
            /\ fnOut.sleep_for = Max(boundary + 5 - fnIn.now, floor)

\* the same statement for the intervals of up to one hour
C27_HoldsUpToOneHour ==
    timeframe_to_minutes(config.TIMEFRAME_ENTRY) <= 60 => C27_BoundaryAndSleepFloor

-----------------------------------------------------------------------------
(* The run in dry-run mode *)

\* pending orders in the book before the run: a sell limit of this agent whose
\* position, once filled, is at the trigger under the quote of SpecQuotes, and
\* a buy limit of another agent
DryBooks ==
    LET own == [ticket |-> 1, magic |-> BaseConfig.MAGIC, type |-> 1,
                price |-> Px(46), sl |-> Px(54)]
        other == [ticket |-> 2, magic |-> BaseConfig.MAGIC + 2, type |-> 0,
                  price |-> Px(20), sl |-> Px(12)]
    IN  {<<own>>, <<own, other>>}

DryInit ==
    /\ config \in {c \in SpecConfigs : c.DRY_RUN /\ c.LOT_STEP = BaseConfig.LOT_STEP}
    /\ tick \in SpecQuotes \ {NoTick}
    /\ positions = {}
    /\ nextTicket = 3
    /\ tightened_positions = {}
    /\ monPc = "idle"
    /\ monSnap = <<>>
    /\ monIdx = 0
    /\ modReq = NoReq
    /\ orders \in DryBooks
    /\ cancelRes = NoRes
    /\ fnIn = NoOut
    /\ fnOut = NoOut
    /\ pc = "fetch"
    /\ candle = 1
    /\ last_seen = 0
    /\ last_time = 0
    /\ sc = NoScan
    /\ scanRet = NoRet
    /\ scanStarts = 0
    /\ sends = 0
    /\ faults = 0
    /\ startup = "unchecked"
    /\ shutdowns = 0

\* main_loop in DRY_RUN, where scan_once returns right after send_order and
\* reaches neither the pending wait nor its own monitor, and a caller of
\* cancel_pending_orders_for_symbol
DryNext ==
    \/ MainFetch
    \/ Backoff
    \/ MainAfterMonitor
    \/ ScanStart
    \/ ScanEntry
    \/ MainAfterScan
    \/ MonitorPoll
    \/ MonitorCheck
    \/ CandleCloses
    \/ PendingFills
    \/ PositionCloses
    \/ CancelCall

SpecDry == DryInit /\ [][DryNext]_vars

-----------------------------------------------------------------------------
(* Claims about main_loop and scan_once, checked under Spec *)

\* this step of scan_once calls send_order
SendCalled == pc = "scan_entry" /\ sends' = sends + 1

\* C2: whenever scan_once calls send_order there is neither an open position nor
\* a live pending order of the symbol, a pending order left over from an earlier
\* scan whose cancellation failed included.
C2_NoEntryWhileLive ==
    [][SendCalled => positions = {} /\ orders = <<>>]_vars

\* C3: scan_once is started at most once for any open time of the latest fetched
\* candle, iterations that raise and are retried included.
C3_AtMostOneScanPerCandle == scanStarts <= 1

\* C4: while the latest open time does not advance send_order is called at most
\* once, also when the iteration that called it fails afterwards.
C4_AtMostOneSendPerCandle == sends <= 1

\* scan_once has returned from a scan that sent a limit order for real, saw no
\* position in any poll of the wait and waited the configured maximum
TimedOut ==
    /\ pc = "scan_ret"
    /\ ~config.DRY_RUN
    /\ sc.sent = 1
    /\ sc.type = "limit"
    /\ ~sc.filled
    /\ sc.waited >= max_wait(config)

\* the result and the calls of a scan that timed out
TimeoutReturn ==
    /\ scanRet = [ok |-> FALSE, res |-> "pending_timeout_cancelled"]
    /\ sc.cancelCalls = 1
    /\ sc.monitorCalls = 0

\* every order of `list` that carries the agent's magic got exactly one removal
\* request order_send(REMOVE)
EachOwnOrderOnce(list) ==
    \A i \in 1..Len(list) :
        list[i].magic = config.MAGIC =>
            Count(sc.cancel.res.primary, list[i].ticket) = 1

\* C5 as claimed: after a timed-out wait cancel_pending_orders_for_symbol was
\* called exactly once, exactly one cancel attempt was made for each pending order
\* of the symbol carrying the agent's magic, and scan_once returns
\* (False, "pending_timeout_cancelled") without entering the monitor.
C5_TimeoutCancelsEveryOwnOrder ==
    TimedOut => TimeoutReturn /\ EachOwnOrderOnce(sc.cancel.book)

\* C5 amended: the one cancel attempt is made for each pending order carrying the
\* agent's magic that orders_get returns to the call; when orders_get raises or
\* returns nothing no removal is requested; the call count and the result are as
\* claimed.
C5_TimeoutCancelsEveryOwnOrderReturned ==
    TimedOut =>
        /\ TimeoutReturn
        /\ EachOwnOrderOnce(sc.cancel.list)
        /\ sc.cancel.list = <<>> => sc.cancel.res.primary = <<>>

\* C5 witness: a scan timed out with its own pending order in the book, orders_get
\* returned it and one removal was requested for it.
C5_Witness ==
    /\ TimedOut
    /\ TimeoutReturn
    /\ Len(sc.cancel.list) = 1
    /\ sc.cancel.list[1].magic = config.MAGIC
    /\ sc.cancel.res.primary = <<sc.cancel.list[1].ticket>>

\* the running scan detected an entry and could not build a request: no quote,
\* the normalised volume below MIN_LOT, the limit price missing, or the limit
\* price rejected by _validate_limit_price on the quote it read
BuildFails ==
    /\ sc # NoScan
    /\ sc.direction \in {"long", "short"}
    /\ \/ sc.tk = NoTick
       \/ sc.tkb = NoTick
       \/ round_lot(config, config.DEFAULT_VOLUME) < config.MIN_LOT
       \/ sc.type = "limit" /\ sc.price = NoPrice
       \/ /\ sc.tkv # NoRead
          /\ ~validate_limit_price(config, sc.direction, sc.price, sc.tkv)

\* C9: a scan whose request building fails has not called send_order, has entered
\* neither the pending wait nor the monitor, and returns ok = False.
C9_BuildFailureNeverSubmitted ==
    BuildFails =>
        /\ pc = "scan_ret"
        /\ ~scanRet.ok
        /\ sc.sent = 0
        /\ sc.waited = 0
        /\ sc.cancelCalls = 0
        /\ sc.monitorCalls = 0
        /\ monPc = "idle"

\* C9 witness: a scan returned limit_request_invalid for a limit price that the
\* validator rejected on a quote it did read.
C9_Witness ==
    /\ BuildFails
    /\ sc.type = "limit"
    /\ sc.tkv \notin {NoRead, NoTick}
    /\ sc.sent = 0
    /\ scanRet = [ok |-> FALSE, res |-> "limit_request_invalid"]

\* this step of main_loop invokes scan_once
ScanInvoked == pc = "fetch" /\ pc' = "scan_start"

\* C13: when a position of the symbol is open at the first-run check of main_loop,
\* monitor_position_by_symbol is invoked and has returned before scan_once is
\* first invoked, and send_order is not called before that.
C13_StartupPositionSupervisedFirst ==
    [][/\ (ScanInvoked /\ startup # "scanned") => startup # "missed"
       /\ (startup \in {"monitor", "missed"} /\ pc # "fetch") =>
             pc = "startup_monitor" /\ ~SendCalled]_vars

\* main_loop goes back to waiting for a candle after a supervision has returned:
\* one it called itself, or one the scan_once it called ran
BackFromSupervision ==
    /\ pc' = "fetch"
    /\ faults' = faults
    /\ \/ pc \in {"startup_monitor", "already_monitor"}
       \/ pc = "scan_ret" /\ sc.monitorCalls > 0

\* C14: whenever position supervision has run and returned (at startup, after
\* position_already_open, or inside the scan that opened the position) and no
\* exception was raised, main_loop goes back to waiting with last_seen set to the
\* open time of the most recent candle, the one a fetch at that moment returns.
C14_LastSeenRefreshedAfterSupervision ==
    [][BackFromSupervision => last_seen' = candle]_vars

\* C17: when scan_once returns after a send_order that reported a transport
\* failure (order_send raised, trading disabled, an error status) it returns
\* ok = False, and it returns ok = True only after a send_order that was accepted
\* or simulated.
C17_FailedSendReturnsNotOk ==
    (pc = "scan_ret" /\ scanRet # NoRet) =>
        /\ (sc.sent = 1 /\ sc.res \in {"reject", "exception", "disallowed"}) => ~scanRet.ok
        /\ scanRet.ok => sc.sent = 1 /\ sc.res \in {"done", "dry-run"}

\* a round of the pending wait in which positions_get returns a position
PollSeesPosition ==
    /\ pc = "pending_wait"
    /\ sc.waited < max_wait(config)
    /\ positions # {}
    /\ pc' # "backoff"
    /\ <<pc, sc>>' # <<pc, sc>>

\* C28: when a round of the pending wait sees a position of the symbol, the
\* wait ends with that round, cancel_pending_orders_for_symbol is not called
\* and the pending orders stay as they are, and the monitor is started; a scan
\* that has seen the fill returns only after the monitor, with no cancellation.
C28_FillHandsOffToMonitor ==
    [][/\ PollSeesPosition =>
             /\ pc' = "scan_monitor" /\ monPc' = "poll"
             /\ sc'.filled /\ sc'.monitorCalls = 1
             /\ sc'.cancelCalls = 0 /\ orders' = orders
             /\ sc'.waited = sc.waited
       /\ (sc' # NoScan /\ sc'.filled) =>
             /\ pc' \in {"scan_monitor", "scan_ret"}
             /\ sc'.cancelCalls = 0 /\ sc'.monitorCalls = 1
             /\ pc' = "scan_ret" => scanRet'.ok]_vars

\* C28 witness: scan_once has returned after a fill seen in the pending wait
C28_Witness ==
    /\ pc = "scan_ret"
    /\ sc.filled /\ sc.monitorCalls = 1 /\ sc.cancelCalls = 0
    /\ scanRet.ok

-----------------------------------------------------------------------------
(* Claims about main_loop as a whole, checked under SpecLoop *)

\* C15: an exception raised inside an iteration (fetch, scan, supervision, the
\* re-fetch of last_seen) is caught: the loop goes to its backoff sleep without
\* shutting down and from there to a new iteration; main_loop leaves the loop
\* only by the external interrupt, and when it has left the loop shutdown_mt5 has
\* been called exactly once, and never while it is in the loop.
C15_LoopSurvivesAndShutsDownOnce ==
    [][/\ faults' # faults =>
             pc \in LoopPcs /\ pc' = "backoff" /\ shutdowns' = shutdowns
       /\ (pc = "backoff" /\ pc' # pc) => pc' \in {"fetch", "stopped"}
       /\ (pc \in LoopPcs /\ pc' \notin LoopPcs) => Interrupt /\ pc' = "stopped"
       /\ pc \in LoopPcs => shutdowns = 0
       /\ pc' = "stopped" => shutdowns' = 1]_vars

\* C15 witness: a run in which an iteration raised, the loop went on to scan a
\* later candle, and the interrupt then ended it with one shutdown.
C15_Witness ==
    /\ pc = "stopped"
    /\ faults > 0
    /\ startup = "scanned"
    /\ shutdowns = 1

\* C18: when ensure_symbol cannot resolve the configured symbol, or the entry
\* timeframe code is one timeframe_to_minutes rejects, main_loop is never inside
\* its loop: no fetch, no scan, no order submission.
C18_ConfigErrorsFatalAtStartup ==
    (\/ ~ensure_symbol(config.SYMBOL)
     \/ timeframe_to_minutes(config.TIMEFRAME_ENTRY) = NoMinutes)
    => pc \notin LoopPcs

-----------------------------------------------------------------------------
(* Claims about dry-run mode, checked under SpecDry *)

\* C16: with DRY_RUN set, a call of _modify_position_sl reports success without
\* a call of the terminal and leaves the position as it is; a call of
\* cancel_pending_orders_for_symbol sends no removal request, removes nothing and
\* counts every order of this agent that orders_get returned as cancelled; a call
\* of send_order returns the simulated result, scan_once returns (True, that
\* result), and neither an order nor a position is booked; and that call was
\* reached through detection and a built, validated request.
C16_DryRunMutatesNothing ==
    [][config.DRY_RUN =>
        /\ modReq' # modReq =>
              modReq'.ok /\ ~modReq'.terminal /\ positions' = positions
        /\ cancelRes' # cancelRes =>
              /\ cancelRes'.res.primary = <<>>
              /\ cancelRes'.res.secondary = <<>>
              /\ orders' = orders
              /\ cancelRes'.q = "ok" =>
                    /\ cancelRes'.res.errors = <<>>
                    /\ cancelRes'.res.cancelled =
                          Cardinality({i \in 1..Len(orders) : ~is_skipped(config, orders[i])})
        /\ SendCalled =>
              /\ sc'.res = "dry-run"
              /\ scanRet' = [ok |-> TRUE, res |-> "dry-run"]
              /\ orders' = orders /\ positions' = positions
              /\ sc'.direction \in {"long", "short"}
              /\ sc'.type = "limit" => sc'.tkv # NoRead]_vars

\* C16 witness: in dry-run a limit entry was detected, built, validated and
\* "sent", a stop-loss modification and a cancellation of this agent's order
\* were simulated.
C16_Witness ==
    /\ config.DRY_RUN
    /\ scanRet # NoRet /\ scanRet.ok /\ sc.type = "limit"
    /\ modReq # NoReq /\ modReq.ok
    /\ cancelRes # NoRes /\ cancelRes.res.cancelled > 0

=============================================================================
